---- MODULE Spec2Model ----
(***************************************************************************)
(* Model of the RoofTop-Menu data-access layer: MenuDataService (the       *)
(* Catalog Store) as found in                                              *)
(*   src/src/app/core/services/menu-data/menu-data.ts  and                 *)
(*   src/unnamed/part_000 (the annotated variant of the same service).     *)
(*                                                                         *)
(* A JavaScript object is modelled as a record [ref, data]: ref is the     *)
(* object's identity (what === compares), data its structural content.     *)
(* "null" / "nothing" is the empty tuple, a held value v is <<v>>.         *)
(***************************************************************************)
EXTENDS Integers, Sequences, FiniteSets, TLC

(***************************************************************************)
(* Bounds of the model.                                                    *)
(***************************************************************************)
MaxCats  == 2      \* categories per catalog
MaxItems == 2      \* items per category
MaxQty   == 1      \* quantitaDisponibile ranges over 0..MaxQty
MaxFetch == 2      \* HTTP requests started in one behaviour
MaxSockets == 2    \* connections io() opens in one behaviour

(***************************************************************************)
(* Data universe.                                                          *)
(***************************************************************************)
ItemIds    == {"a1", "a2"}
UnknownId  == "zzz"
PatchIds   == ItemIds \cup {UnknownId}
Prices     == {5, 8}
Callers    == {"menu", "languageSwitcher"}
Builds     == {"menu-data.ts", "part_000"}

Null       == << >>
Some(v)    == << v >>
NoName     == "-"

ItemName(id)  == IF id = "a1" THEN "Spritz" ELSE "Prosecco"
PatchNames    == {NoName, "Hugo"}

\* MenuItem: _id, name, price, quantitaDisponibile, disponibile
MenuItem(id, pr, q, d) ==
  [_id |-> id, name |-> ItemName(id), price |-> pr,
   quantitaDisponibile |-> q, disponibile |-> d]

Range(s) == { s[i] : i \in DOMAIN s }

\* all sequences over S of length at most n
RECURSIVE SeqsUpTo(_, _)
SeqsUpTo(S, n) ==
  IF n = 0 THEN { << >> }
  ELSE LET shorter == SeqsUpTo(S, n - 1)
       IN  shorter \cup { Append(s, x) : s \in shorter, x \in S }

\* the item identifiers of one category, in order, each at most once
IdSeqs == { s \in SeqsUpTo(ItemIds, MaxItems) : Cardinality(Range(s)) = Len(s) }

\* the layout of a catalog: which item sits where.  _id is the MongoDB
\* primary key of an item (part_000:19-24), so no identifier occurs twice.
Shapes ==
  { sh \in SeqsUpTo(IdSeqs, MaxCats) :
      \A i, j \in DOMAIN sh : i # j => Range(sh[i]) \cap Range(sh[j]) = {} }

\* MenuCategory: _id, name, items
MenuCategory(i, items) ==
  [_id |-> i, name |-> IF i = 1 THEN "Drinks" ELSE "Food", items |-> items]

\* PublicMenuData: categories, allergens
PublicMenuData(sh, q, d, pr) ==
  [categories |->
     [i \in DOMAIN sh |->
        MenuCategory(i, [j \in DOMAIN sh[i] |->
                           MenuItem(sh[i][j], pr[sh[i][j]], q[sh[i][j]], d[sh[i][j]])])],
   allergens |-> << >>]

Quantities == 0..MaxQty

\* every well-formed catalog within the bounds
Catalogs ==
  { PublicMenuData(sh, q, d, pr) :
      sh \in Shapes, q \in [ItemIds -> Quantities],
      d \in [ItemIds -> BOOLEAN], pr \in [ItemIds -> Prices] }

\* the payload of a menu_item_updated event: _id, quantitaDisponibile,
\* disponibile and an optional name (NoName when the server sends none)
Patches ==
  [_id : PatchIds, quantitaDisponibile : Quantities,
   disponibile : BOOLEAN, name : PatchNames]

\* variant: the sold-out handler forgets to clear the availability flag
SoldOutPatchStillAvailable(id) ==
  [_id |-> id, quantitaDisponibile |-> 0, disponibile |-> TRUE, name |-> NoName]

\* what the menu_item_sold_out handler passes to updateMenuItemLocally
SoldOutPatch(id) ==
  [_id |-> id, quantitaDisponibile |-> 0, disponibile |-> FALSE, name |-> NoName]

(***************************************************************************)
(* updateMenuItemLocally, the pure part: from the current menu and the     *)
(* update to the object handed to menuDataSubject.next().                  *)
(***************************************************************************)

\* variant: the quantity of the update is added to the quantity held
SpreadItemAdds(item, updatedItem) ==
  [item EXCEPT !.quantitaDisponibile = @ + updatedItem.quantitaDisponibile,
               !.disponibile = updatedItem.disponibile]

\* variant: the availability flag is not copied from the update
SpreadItemKeepsFlag(item, updatedItem) ==
  [item EXCEPT !.quantitaDisponibile = updatedItem.quantitaDisponibile]

\* { ...item, quantitaDisponibile: ..., disponibile: ... }
SpreadItem(item, updatedItem) ==
  [item EXCEPT !.quantitaDisponibile = updatedItem.quantitaDisponibile,
               !.disponibile = updatedItem.disponibile]

\* variant: the comparison of identifiers is inverted (!== for ===)
UpdatedMenuMapAllInverted(currentMenu, updatedItem) ==
  [currentMenu EXCEPT !.categories =
     [c \in DOMAIN currentMenu.categories |->
        [currentMenu.categories[c] EXCEPT !.items =
           [j \in DOMAIN currentMenu.categories[c].items |->
              IF currentMenu.categories[c].items[j]._id # updatedItem._id
                THEN SpreadItem(currentMenu.categories[c].items[j], updatedItem)
                ELSE currentMenu.categories[c].items[j]]]]]

\* menu-data.ts: map over every item of every category
UpdatedMenuMapAll(currentMenu, updatedItem) ==
  [currentMenu EXCEPT !.categories =
     [c \in DOMAIN currentMenu.categories |->
        [currentMenu.categories[c] EXCEPT !.items =
           [j \in DOMAIN currentMenu.categories[c].items |->
              IF currentMenu.categories[c].items[j]._id = updatedItem._id
                THEN SpreadItem(currentMenu.categories[c].items[j], updatedItem)
                ELSE currentMenu.categories[c].items[j]]]]]

\* Array.prototype.findIndex, 1-based; -1 when no element matches
FindIndex(items, id) ==
  IF \E j \in DOMAIN items : items[j]._id = id
    THEN CHOOSE j \in DOMAIN items :
           /\ items[j]._id = id
           /\ \A k \in DOMAIN items : items[k]._id = id => j <= k
    ELSE -1

\* variant: itemFound starts as true, no category is ever searched
ItemFoundBeforeAlways(categories, c, id) == TRUE

\* part_000: the callback of categories.map for category c, given the
\* categories already visited; itemFound is set by the first category that
\* contains the identifier and makes every later category pass unchanged
ItemFoundBefore(categories, c, id) ==
  \E b \in 1..(c - 1) : FindIndex(categories[b].items, id) # -1

UpdatedCategoryFirstMatch(categories, c, updatedItem) ==
  LET category  == categories[c]
      itemIndex == FindIndex(category.items, updatedItem._id)
  IN  IF ItemFoundBefore(categories, c, updatedItem._id) THEN category
      ELSE IF itemIndex = -1 THEN category
      ELSE [category EXCEPT !.items[itemIndex] =
              SpreadItem(category.items[itemIndex], updatedItem)]

UpdatedMenuFirstMatch(currentMenu, updatedItem) ==
  [currentMenu EXCEPT !.categories =
     [c \in DOMAIN currentMenu.categories |->
        UpdatedCategoryFirstMatch(currentMenu.categories, c, updatedItem)]]

(***************************************************************************)
(* The menu component's projection: sortCategoriesByPrice.                 *)
(***************************************************************************)

\* variant: the comparator is reversed (b.price - a.price)
ComparePriceReversed(a, b) == b.price - a.price

\* the comparator (a, b) => a.price - b.price
ComparePrice(a, b) == a.price - b.price

\* one step of a stable sort: x goes behind every element that does not
\* compare greater than it
InsertByPrice(sorted, x) ==
  LET k == Cardinality({ i \in DOMAIN sorted : ComparePrice(sorted[i], x) <= 0 })
  IN  SubSeq(sorted, 1, k) \o << x >> \o SubSeq(sorted, k + 1, Len(sorted))

\* Array.prototype.sort with that comparator: stable, ascending
RECURSIVE SortByPrice(_)
SortByPrice(items) ==
  IF Len(items) = 0 THEN << >>
  ELSE InsertByPrice(SortByPrice(SubSeq(items, 1, Len(items) - 1)), items[Len(items)])

\* variant: category.items.sort(...) sorts the array of the catalog itself
SortedInPlace(items) ==
  [sorted |-> SortByPrice(items), original |-> SortByPrice(items)]

\* [...category.items].sort(...): sorted is the array the expression
\* returns, original is category.items as the expression leaves it
SortedCopy(items) ==
  [sorted |-> SortByPrice(items), original |-> items]

\* the catalog sortCategoriesByPrice(menuData) returns
sortCategoriesByPrice(menuData) ==
  [menuData EXCEPT !.categories =
     [c \in DOMAIN menuData.categories |->
        [menuData.categories[c] EXCEPT
           !.items = SortedCopy(menuData.categories[c].items).sorted]]]

\* the catalog passed to sortCategoriesByPrice as the call leaves it
MenuDataAfterSort(menuData) ==
  [menuData EXCEPT !.categories =
     [c \in DOMAIN menuData.categories |->
        [menuData.categories[c] EXCEPT
           !.items = SortedCopy(menuData.categories[c].items).original]]]

(***************************************************************************)
(* State.                                                                  *)
(***************************************************************************)
VARIABLES
  build,            \* which of the two sources of MenuDataService is compiled
  menuDataSubject,  \* BehaviorSubject<PublicMenuData | null>: its .value
  streams,          \* per consumer: the Observable it was handed and its state
  pipeMemory,       \* per consumer: the object distinctUntilChanged remembers
  lastSeen,         \* per consumer: content of the last value it received
  delivered,        \* per consumer: content the last step delivered to it
  nFetch,           \* number of HTTP GET requests started so far
  prevMenu,         \* menuDataSubject.value before the last step (content only)
  prevFetch,        \* nFetch before the last step
  lastOp,           \* the operation performed by the last step
  lastWriter,       \* the operation that last called menuDataSubject.next()
  quiet,            \* no reloadMenu() and no push event so far
  lastDelivered,    \* per identifier: quantity and availability the backend
                    \* last sent for it, in a whole catalog or an item event
  menuView          \* the menu component: what its map(sortCategoriesByPrice)
                    \* made of the catalog the last step delivered to it

storeVars ==
  << build, menuDataSubject, streams, pipeMemory, lastSeen, delivered, nFetch,
     prevMenu, prevFetch, lastOp, lastWriter, quiet, lastDelivered, menuView >>

VARIABLES
  socket,           \* SocketService.socket: the connection in use, or undefined
  conns,            \* per connection io() has made: status, registered handlers
  listeners,        \* per listen() call: event name, state of its subscription
  received,         \* per listen() call: payloads the last step handed to it
  lastSock          \* the operation of SocketService performed by the last step

socketVars == << socket, conns, listeners, received, lastSock >>

vars == << storeVars, socketVars >>

NoPatch == [_id |-> "-", quantitaDisponibile |-> 0, disponibile |-> FALSE,
            name |-> NoName]

Op(op, who, patch, data) == [op |-> op, who |-> who, patch |-> patch, data |-> data]

\* the content of a held value, Null when nothing is held
Content(v) == IF v = Null THEN Null ELSE Some(v[1].data)

\* the places of a catalog: << category index, item index >>
Positions(C) ==
  UNION { { << c, j >> : j \in DOMAIN C.categories[c].items } : c \in DOMAIN C.categories }

ItemAt(C, pos) == C.categories[pos[1]].items[pos[2]]

ItemIdsOf(C) == { ItemAt(C, pos)._id : pos \in Positions(C) }

\* quantity and availability a whole catalog C carries for each identifier
DeliveredBy(C) ==
  [i \in ItemIds |->
     IF i \in ItemIdsOf(C)
       THEN LET pos == CHOOSE q \in Positions(C) : ItemAt(C, q)._id = i
            IN  << ItemAt(C, pos).quantitaDisponibile, ItemAt(C, pos).disponibile >>
       ELSE Null]

NoWriter == [op |-> "none", who |-> "-"]

PushEvents == {"menu_item_updated", "menu_item_sold_out", "menu_reset"}

\* menu.ts ngOnInit: publicData$ = getMenuData().pipe(map(data =>
\* sortCategoriesByPrice(data))); publicData is what the map emits for a
\* delivered value, menuData the delivered catalog as the call leaves it
MenuView(value) ==
  IF value = Null THEN Null
  ELSE Some([publicData |-> sortCategoriesByPrice(value[1]),
             menuData |-> MenuDataAfterSort(value[1])])

\* bookkeeping of a step: what ran, on which slot content, who wrote the
\* slot, and what the menu component's map made of the value it was handed
RecordStore(op, who, patch, data) ==
  /\ prevMenu' = Content(menuDataSubject)
  /\ prevFetch' = nFetch
  /\ lastOp' = Op(op, who, patch, data)
  /\ lastWriter' =
       IF menuDataSubject' = menuDataSubject THEN lastWriter
       ELSE [op |-> IF op = "httpResponse" THEN streams[who].op ELSE op,
             who |-> who]
  /\ quiet' = (quiet /\ op \notin PushEvents \cup {"reloadMenu"})
  /\ lastDelivered' =
       IF op \in {"httpResponse", "menu_reset"}
         THEN DeliveredBy(data[1])
       ELSE IF /\ op \in {"menu_item_updated", "menu_item_sold_out"}
               /\ menuDataSubject # Null
               /\ patch._id \in ItemIdsOf(menuDataSubject[1].data)
         THEN [lastDelivered EXCEPT ![patch._id] =
                 IF op = "menu_item_sold_out" THEN << 0, FALSE >>
                 ELSE << patch.quantitaDisponibile, patch.disponibile >>]
       ELSE lastDelivered
  /\ menuView' = IF streams["menu"].op = "getMenuData"
                   THEN MenuView(delivered'["menu"]) ELSE Null

\* a step of the store alone: the channel stays as it is
Record(op, who, patch, data) ==
  /\ RecordStore(op, who, patch, data)
  /\ UNCHANGED socketVars

NoStream == [op |-> "none", kind |-> "none", st |-> "idle"]

\* object identities in use: a new object differs from every live one
LiveRefs ==
  { v[1].ref : v \in { w \in {menuDataSubject} \cup Range(pipeMemory) : w # Null } }

NewRef == CHOOSE r \in 0..(Cardinality(Callers) + 1) : r \notin LiveRefs

\* a freshly allocated object (object literal or parsed payload) with content d
NewObject(d) == [ref |-> NewRef, data |-> d]

(***************************************************************************)
(* menuData$ = menuDataSubject.pipe(filter(data => data !== null))         *)
(* part_000 adds distinctUntilChanged(), which compares with ===.          *)
(***************************************************************************)
\* variant: the pipe has no filter
FilterPassesAll(v) == TRUE

Filter(v) == v # Null

\* null as a value handed to a next callback
NullValue == [null |-> TRUE]

\* what the next callback of a menuData$ subscriber is handed when the
\* subject's value v reaches it
Handed(v) == Some(IF v = Null THEN NullValue ELSE v[1].data)

DistinctUntilChanged(previous, v) ==
  \/ previous = Null
  \/ previous[1].ref # v[1].ref

\* variant: the pipe ends with first(), a subscriber gets one value only
PassesPipeOnce(previous, v) ==
  /\ Filter(v)
  /\ previous = Null

\* does value v of the subject reach a menuData$ subscriber whose last
\* received value is previous
PassesPipe(previous, v) ==
  /\ Filter(v)
  /\ build = "part_000" => DistinctUntilChanged(previous, v)

IsSubscribed(c) == streams[c].kind = "menuData$" /\ streams[c].st = "subscribed"

\* menuDataSubject.next(v): store v and hand it to every subscriber of the
\* subject; direct is the set of consumers that receive v from their own
\* HTTP stream in the same step
SubjectNext(v, direct) ==
  /\ menuDataSubject' = v
  /\ delivered' = [c \in Callers |->
       IF c \in direct THEN Content(v)
       ELSE IF IsSubscribed(c) /\ PassesPipe(pipeMemory[c], v) THEN Handed(v)
       ELSE Null]
  /\ pipeMemory' = [c \in Callers |->
       IF IsSubscribed(c) /\ PassesPipe(pipeMemory[c], v) THEN v ELSE pipeMemory[c]]
  /\ lastSeen' = [c \in Callers |->
       IF delivered'[c] # Null THEN delivered'[c] ELSE lastSeen[c]]

NothingDelivered == delivered' = [c \in Callers |-> Null]

ServerShapes == { << <<"a1">> >>, << <<"a2", "a1">>, << >> >> }

\* the item updates the backend pushes while the store runs
StorePatches ==
  { p \in Patches : /\ p._id \in {"a1", UnknownId}
                    /\ p.name = NoName
                    /\ p.disponibile = (p.quantitaDisponibile > 0) }

\* the catalogs the backend serves (HTTP body, menu_reset payload)
ServerCatalogs ==
  { PublicMenuData(sh, [i \in ItemIds |-> MaxQty], [i \in ItemIds |-> TRUE],
                   [i \in ItemIds |-> IF i = "a1" THEN 5 ELSE 8]) :
      sh \in ServerShapes }

(***************************************************************************)
(* SocketService: the data.                                                *)
(***************************************************************************)
SocketIds == 1..MaxSockets

\* the listen() calls of a run: l1, l2 and l3 are the three of
\* MenuDataService where it is present, l4 is a call made by another
\* component beside them
StoreListenerIds == {"l1", "l2", "l3"}

Listeners == StoreListenerIds \cup {"l4"}

LifecycleEvents == {"connect", "disconnect", "connect_error"}

\* io(backendUrl, { reconnectionAttempts: 5, timeout: 15000 })
reconnectionAttempts == 5

\* a connection io() has not made yet; attempts counts the reconnection
\* attempts started since the connection was last up, lost tells whether
\* an attempt has failed or the connection has gone down since io() made it
NoConn ==
  [status |-> "absent",
   lifecycle |-> [e \in LifecycleEvents |-> 0],
   handlers |-> [l \in Listeners |-> 0],
   attempts |-> 0,
   lost |-> FALSE]

\* io(backendUrl, {...}) followed by the three socket.on(...) of connect()
NewConn ==
  [status |-> "connecting",
   lifecycle |-> [e \in LifecycleEvents |-> 1],
   handlers |-> [l \in Listeners |-> 0],
   attempts |-> 0,
   lost |-> FALSE]

\* sock: the connection the subscription registered its handler on
NoListener == [event |-> "-", st |-> "none", sock |-> 0]

NothingReceived == [l \in Listeners |-> << >>]

\* before: what this.socket was when the operation began
SockOp(op, who, event, data) ==
  [op |-> op, who |-> who, event |-> event, data |-> data, before |-> socket]

\* SocketService after construction: socket is undefined
ChannelInit ==
  /\ socket = Null
  /\ conns = [k \in SocketIds |-> NoConn]
  /\ listeners = [l \in Listeners |-> NoListener]
  /\ received = NothingReceived
  /\ lastSock = [op |-> "init", who |-> "-", event |-> "-", data |-> "-", before |-> Null]

\* the event each listen() call of MenuDataService's constructor names
StoreListeners ==
  [l \in Listeners |->
     IF l \in StoreListenerIds
       THEN [event |-> CASE l = "l1" -> "menu_item_updated"
                         [] l = "l2" -> "menu_item_sold_out"
                         [] OTHER    -> "menu_reset",
             st |-> "active", sock |-> 1]
       ELSE NoListener]

\* the channel as the store machine sees it: initializeSocketListeners() has
\* connected and subscribed its three listeners, and the connection is up
ChannelOfStore ==
  /\ socket = Some(1)
  /\ conns = [k \in SocketIds |->
       IF k = 1 THEN [NewConn EXCEPT !.status = "connected",
                                     !.handlers = [l \in Listeners |->
                                        IF l \in StoreListenerIds THEN 1 ELSE 0]]
       ELSE NoConn]
  /\ listeners = StoreListeners
  /\ received = NothingReceived
  /\ lastSock = [op |-> "init", who |-> "-", event |-> "-", data |-> "-", before |-> Null]

Init ==
  /\ build \in Builds
  /\ menuDataSubject = Null
  /\ streams = [c \in Callers |-> NoStream]
  /\ pipeMemory = [c \in Callers |-> Null]
  /\ lastSeen = [c \in Callers |-> Null]
  /\ delivered = [c \in Callers |-> Null]
  /\ nFetch = 0
  /\ prevMenu = Null
  /\ prevFetch = 0
  /\ lastOp = Op("init", "-", NoPatch, Null)
  /\ lastWriter = NoWriter
  /\ quiet = TRUE
  /\ lastDelivered = [i \in ItemIds |-> Null]
  /\ menuView = Null
  /\ ChannelOfStore

CanCall(c) == streams[c].st \in {"idle", "complete", "error"}

\* variant: the cache is not consulted, every call goes to the backend
getMenuDataIgnoresCache(c) ==
  /\ CanCall(c)
  /\ streams' = [streams EXCEPT ![c] =
       [op |-> "getMenuData", kind |-> "http", st |-> "returned"]]
  /\ lastSeen' = [lastSeen EXCEPT ![c] = Null]
  /\ NothingDelivered
  /\ UNCHANGED pipeMemory
  /\ UNCHANGED << build, menuDataSubject, nFetch >>
  /\ Record("getMenuData", c, NoPatch, Null)

(***************************************************************************)
(* getMenuData(): menuData$ when a value is cached, else the cold          *)
(* http.get(...).pipe(tap(next)) observable.                               *)
(***************************************************************************)
getMenuData(c) ==
  /\ CanCall(c)
  /\ LET cached == menuDataSubject
     IN  streams' = [streams EXCEPT ![c] =
           [op |-> "getMenuData",
            kind |-> IF cached # Null THEN "menuData$" ELSE "http",
            st |-> "returned"]]
  /\ lastSeen' = [lastSeen EXCEPT ![c] = Null]
  /\ NothingDelivered
  /\ UNCHANGED pipeMemory
  /\ UNCHANGED << build, menuDataSubject, nFetch >>
  /\ Record("getMenuData", c, NoPatch, Null)

\* variant: reloadMenu() serves the cached stream when a value is held
reloadMenuUsesCache(c) ==
  /\ CanCall(c)
  /\ streams' = [streams EXCEPT ![c] =
       [op |-> "reloadMenu",
        kind |-> IF menuDataSubject # Null THEN "menuData$" ELSE "http",
        st |-> "returned"]]
  /\ lastSeen' = [lastSeen EXCEPT ![c] = Null]
  /\ NothingDelivered
  /\ UNCHANGED pipeMemory
  /\ UNCHANGED << build, menuDataSubject, nFetch >>
  /\ Record("reloadMenu", c, NoPatch, Null)

\* reloadMenu(): always the cold HTTP observable
reloadMenu(c) ==
  /\ CanCall(c)
  /\ streams' = [streams EXCEPT ![c] =
       [op |-> "reloadMenu", kind |-> "http", st |-> "returned"]]
  /\ lastSeen' = [lastSeen EXCEPT ![c] = Null]
  /\ NothingDelivered
  /\ UNCHANGED pipeMemory
  /\ UNCHANGED << build, menuDataSubject, nFetch >>
  /\ Record("reloadMenu", c, NoPatch, Null)

\* a consumer reads the public property menuData$ directly
menuDataProperty(c) ==
  /\ CanCall(c)
  /\ streams' = [streams EXCEPT ![c] =
       [op |-> "menuData$", kind |-> "menuData$", st |-> "returned"]]
  /\ lastSeen' = [lastSeen EXCEPT ![c] = Null]
  /\ NothingDelivered
  /\ UNCHANGED pipeMemory
  /\ UNCHANGED << build, menuDataSubject, nFetch >>
  /\ Record("menuData$", c, NoPatch, Null)

\* variant: a plain Subject instead of a BehaviorSubject, nothing is replayed
subscribeWithoutReplay(c) ==
  /\ streams[c].st = "returned"
  /\ IF streams[c].kind = "menuData$"
       THEN /\ streams' = [streams EXCEPT ![c].st = "subscribed"]
            /\ NothingDelivered
            /\ UNCHANGED << pipeMemory, lastSeen, nFetch >>
       ELSE /\ nFetch < MaxFetch
            /\ streams' = [streams EXCEPT ![c].st = "pending"]
            /\ nFetch' = nFetch + 1
            /\ NothingDelivered
            /\ UNCHANGED << pipeMemory, lastSeen >>
  /\ UNCHANGED << build, menuDataSubject >>
  /\ Record("subscribe", c, NoPatch, Null)

\* variant: a subscriber joins a request that is already under way
subscribeJoinsPending(c) ==
  /\ streams[c].st = "returned"
  /\ IF streams[c].kind = "menuData$"
       THEN /\ streams' = [streams EXCEPT ![c].st = "subscribed"]
            /\ delivered' = [d \in Callers |->
                 IF d = c /\ PassesPipe(Null, menuDataSubject)
                   THEN Handed(menuDataSubject) ELSE Null]
            /\ pipeMemory' = [pipeMemory EXCEPT ![c] =
                 IF PassesPipe(Null, menuDataSubject) THEN menuDataSubject ELSE Null]
            /\ lastSeen' = [lastSeen EXCEPT ![c] = delivered'[c]]
            /\ UNCHANGED nFetch
       ELSE /\ nFetch < MaxFetch
            /\ streams' = [streams EXCEPT ![c].st = "pending"]
            /\ nFetch' = IF \E d \in Callers : streams[d].st = "pending"
                           THEN nFetch ELSE nFetch + 1
            /\ NothingDelivered
            /\ UNCHANGED << pipeMemory, lastSeen >>
  /\ UNCHANGED << build, menuDataSubject >>
  /\ Record("subscribe", c, NoPatch, Null)

(***************************************************************************)
(* subscribe() on the returned observable (the async pipe of the view).    *)
(* menuData$: the BehaviorSubject replays its current value through the    *)
(* pipe.  http: the request is sent now.                                   *)
(***************************************************************************)
subscribe(c) ==
  /\ streams[c].st = "returned"
  /\ IF streams[c].kind = "menuData$"
       THEN /\ streams' = [streams EXCEPT ![c].st = "subscribed"]
            /\ delivered' = [d \in Callers |->
                 IF d = c /\ PassesPipe(Null, menuDataSubject)
                   THEN Handed(menuDataSubject) ELSE Null]
            /\ pipeMemory' = [pipeMemory EXCEPT ![c] =
                 IF PassesPipe(Null, menuDataSubject) THEN menuDataSubject ELSE Null]
            /\ lastSeen' = [lastSeen EXCEPT ![c] = delivered'[c]]
            /\ UNCHANGED nFetch
       ELSE /\ nFetch < MaxFetch
            /\ streams' = [streams EXCEPT ![c].st = "pending"]
            /\ nFetch' = nFetch + 1
            /\ NothingDelivered
            /\ UNCHANGED << pipeMemory, lastSeen >>
  /\ UNCHANGED << build, menuDataSubject >>
  /\ Record("subscribe", c, NoPatch, Null)

\* variant: cancelling a subscription empties the slot
unsubscribeResetsStore(c) ==
  /\ streams[c].st \in {"subscribed", "pending"}
  /\ streams' = [streams EXCEPT ![c] = NoStream]
  /\ pipeMemory' = [pipeMemory EXCEPT ![c] = Null]
  /\ lastSeen' = [lastSeen EXCEPT ![c] = Null]
  /\ menuDataSubject' = Null
  /\ NothingDelivered
  /\ UNCHANGED << build, nFetch >>
  /\ Record("unsubscribe", c, NoPatch, Null)

\* the consumer cancels its subscription (an unanswered request is aborted)
unsubscribe(c) ==
  /\ streams[c].st \in {"subscribed", "pending"}
  /\ streams' = [streams EXCEPT ![c] = NoStream]
  /\ pipeMemory' = [pipeMemory EXCEPT ![c] = Null]
  /\ lastSeen' = [lastSeen EXCEPT ![c] = Null]
  /\ NothingDelivered
  /\ UNCHANGED << build, menuDataSubject, nFetch >>
  /\ Record("unsubscribe", c, NoPatch, Null)

\* variant: a response that finds a catalog written by an item event is
\* handed to its caller but not stored
httpResponseYieldsToPatch(c, body) ==
  /\ streams[c].st = "pending"
  /\ IF lastWriter.op \in {"menu_item_updated", "menu_item_sold_out"}
       THEN /\ delivered' = [d \in Callers |-> IF d = c THEN Some(body) ELSE Null]
            /\ lastSeen' = [lastSeen EXCEPT ![c] = Some(body)]
            /\ UNCHANGED << menuDataSubject, pipeMemory >>
       ELSE SubjectNext(Some(NewObject(body)), {c})
  /\ streams' = [streams EXCEPT ![c].st = "complete"]
  /\ UNCHANGED << build, nFetch >>
  /\ Record("httpResponse", c, NoPatch, Some(body))

\* variant: the tap stores a response only while nothing is held
httpResponseKeepsHeld(c, body) ==
  /\ streams[c].st = "pending"
  /\ IF menuDataSubject = Null
       THEN SubjectNext(Some(NewObject(body)), {c})
       ELSE /\ delivered' = [d \in Callers |-> IF d = c THEN Some(body) ELSE Null]
            /\ lastSeen' = [lastSeen EXCEPT ![c] = Some(body)]
            /\ UNCHANGED << menuDataSubject, pipeMemory >>
  /\ streams' = [streams EXCEPT ![c].st = "complete"]
  /\ UNCHANGED << build, nFetch >>
  /\ Record("httpResponse", c, NoPatch, Some(body))

\* the HTTP response arrives: tap(data => menuDataSubject.next(data)), then
\* the body is emitted to the subscriber and the stream completes
httpResponse(c, body) ==
  /\ streams[c].st = "pending"
  /\ LET data == NewObject(body)
     IN  SubjectNext(Some(data), {c})
  /\ streams' = [streams EXCEPT ![c].st = "complete"]
  /\ UNCHANGED << build, nFetch >>
  /\ Record("httpResponse", c, NoPatch, Some(body))

\* variant: a failed request empties the slot
httpErrorClearsCache(c) ==
  /\ streams[c].st = "pending"
  /\ streams' = [streams EXCEPT ![c].st = "error"]
  /\ menuDataSubject' = Null
  /\ NothingDelivered
  /\ UNCHANGED << build, pipeMemory, lastSeen, nFetch >>
  /\ Record("httpError", c, NoPatch, Null)

\* variant: the error is swallowed and the stream completes empty
httpErrorSwallowed(c) ==
  /\ streams[c].st = "pending"
  /\ streams' = [streams EXCEPT ![c].st = "complete"]
  /\ NothingDelivered
  /\ UNCHANGED << build, menuDataSubject, pipeMemory, lastSeen, nFetch >>
  /\ Record("httpError", c, NoPatch, Null)

\* the HTTP request fails: tap's next callback does not run, the error goes
\* to the subscriber of this stream
httpError(c) ==
  /\ streams[c].st = "pending"
  /\ streams' = [streams EXCEPT ![c].st = "error"]
  /\ NothingDelivered
  /\ UNCHANGED << build, menuDataSubject, pipeMemory, lastSeen, nFetch >>
  /\ Record("httpError", c, NoPatch, Null)

(***************************************************************************)
(* updateMenuItemLocally(updatedItem)                                      *)
(***************************************************************************)
\* variant: an item that went unavailable ignores every later update
UpdatedMenuUnavailableSticks(currentMenu, updatedItem) ==
  IF \E pos \in Positions(currentMenu) :
       /\ ItemAt(currentMenu, pos)._id = updatedItem._id
       /\ ~ItemAt(currentMenu, pos).disponibile
    THEN currentMenu
    ELSE IF build = "part_000"
           THEN UpdatedMenuFirstMatch(currentMenu, updatedItem)
           ELSE UpdatedMenuMapAll(currentMenu, updatedItem)

\* variant: the availability flag of the update is written to every item of
\* the category that holds the matching item
UpdatedMenuFlagsCategory(currentMenu, updatedItem) ==
  LET updated == IF build = "part_000"
                   THEN UpdatedMenuFirstMatch(currentMenu, updatedItem)
                   ELSE UpdatedMenuMapAll(currentMenu, updatedItem)
  IN  [updated EXCEPT !.categories =
         [c \in DOMAIN updated.categories |->
            IF FindIndex(updated.categories[c].items, updatedItem._id) = -1
              THEN updated.categories[c]
              ELSE [updated.categories[c] EXCEPT !.items =
                      [j \in DOMAIN updated.categories[c].items |->
                         [updated.categories[c].items[j] EXCEPT
                            !.disponibile = updatedItem.disponibile]]]]]

UpdatedMenu(currentMenu, updatedItem) ==
  IF build = "part_000"
    THEN UpdatedMenuFirstMatch(currentMenu, updatedItem)
    ELSE UpdatedMenuMapAll(currentMenu, updatedItem)

\* variant: without the guard an update starts from an empty catalog
updateMenuItemLocallyUnguarded(updatedItem) ==
  LET currentMenu == IF menuDataSubject = Null
                       THEN [categories |-> << >>, allergens |-> << >>]
                       ELSE menuDataSubject[1].data
      updatedMenu == NewObject(UpdatedMenu(currentMenu, updatedItem))
  IN  SubjectNext(Some(updatedMenu), {})

\* variant: the held catalog object is updated in place and emitted again
updateMenuItemLocallyInPlace(updatedItem) ==
  LET currentMenu == menuDataSubject
  IN  IF currentMenu = Null
        THEN /\ NothingDelivered
             /\ UNCHANGED << menuDataSubject, pipeMemory, lastSeen >>
        ELSE LET updatedMenu == [currentMenu[1] EXCEPT
                                   !.data = UpdatedMenu(currentMenu[1].data, updatedItem)]
             IN  SubjectNext(Some(updatedMenu), {})

updateMenuItemLocally(updatedItem) ==
  LET currentMenu == menuDataSubject
  IN  IF currentMenu = Null
        THEN /\ NothingDelivered
             /\ UNCHANGED << menuDataSubject, pipeMemory, lastSeen >>
        ELSE LET updatedMenu == NewObject(UpdatedMenu(currentMenu[1].data, updatedItem))
             IN  SubjectNext(Some(updatedMenu), {})

\* handler of 'menu_item_updated'
onMenuItemUpdated(updatedItem) ==
  /\ updateMenuItemLocally(updatedItem)
  /\ UNCHANGED << build, streams, nFetch >>
  /\ Record("menu_item_updated", "-", updatedItem, Null)

\* handler of 'menu_item_sold_out'
onMenuItemSoldOut(id) ==
  /\ updateMenuItemLocally(SoldOutPatch(id))
  /\ UNCHANGED << build, streams, nFetch >>
  /\ Record("menu_item_sold_out", "-", [NoPatch EXCEPT !._id = id], Null)

\* variant: a reset only fills an empty slot and keeps a held catalog
onMenuResetKeepsHeld(newMenuData) ==
  /\ IF menuDataSubject = Null
       THEN SubjectNext(Some(NewObject(newMenuData)), {})
       ELSE SubjectNext(Some(NewObject(menuDataSubject[1].data)), {})
  /\ UNCHANGED << build, streams, nFetch >>
  /\ Record("menu_reset", "-", NoPatch, Some(newMenuData))

\* variant: a reset empties the slot and leaves the reload to the consumers
onMenuResetClears(newMenuData) ==
  /\ SubjectNext(Null, {})
  /\ UNCHANGED << build, streams, nFetch >>
  /\ Record("menu_reset", "-", NoPatch, Some(newMenuData))

\* handler of 'menu_reset'
onMenuReset(newMenuData) ==
  /\ SubjectNext(Some(NewObject(newMenuData)), {})
  /\ UNCHANGED << build, streams, nFetch >>
  /\ Record("menu_reset", "-", NoPatch, Some(newMenuData))

\* variant: a snapshot read that finds nothing held starts a request
getCurrentMenuDataFetches ==
  /\ NothingDelivered
  /\ nFetch' = IF menuDataSubject = Null /\ nFetch < MaxFetch THEN nFetch + 1 ELSE nFetch
  /\ UNCHANGED << build, menuDataSubject, streams, pipeMemory, lastSeen >>
  /\ Record("getCurrentMenuData", "-", NoPatch, menuDataSubject)

\* getCurrentMenuData(): return this.menuDataSubject.value; the returned
\* object (or null) is kept in lastOp.data
getCurrentMenuData ==
  /\ NothingDelivered
  /\ UNCHANGED << build, menuDataSubject, streams, pipeMemory, lastSeen, nFetch >>
  /\ Record("getCurrentMenuData", "-", NoPatch, menuDataSubject)

Next ==
  \/ \E c \in Callers : getMenuData(c)
  \/ \E c \in Callers : reloadMenu(c)
  \/ \E c \in Callers : menuDataProperty(c)
  \/ \E c \in Callers : subscribe(c)
  \/ \E c \in Callers : unsubscribe(c)
  \/ \E c \in Callers, body \in ServerCatalogs : httpResponse(c, body)
  \/ \E c \in Callers : httpError(c)
  \/ \E updatedItem \in StorePatches : onMenuItemUpdated(updatedItem)
  \/ \E id \in {"a1", UnknownId} : onMenuItemSoldOut(id)
  \/ \E newMenuData \in ServerCatalogs : onMenuReset(newMenuData)
  \/ getCurrentMenuData

Spec == Init /\ [][Next]_vars

(***************************************************************************)
(* The pure update applied once to an arbitrary catalog within the bounds.  *)
(***************************************************************************)
PatchInit ==
  /\ build \in Builds
  /\ menuDataSubject \in { Some([ref |-> 0, data |-> C]) : C \in Catalogs }
  /\ streams = [c \in Callers |-> NoStream]
  /\ pipeMemory = [c \in Callers |-> Null]
  /\ lastSeen = [c \in Callers |-> Null]
  /\ delivered = [c \in Callers |-> Null]
  /\ nFetch = 0
  /\ prevMenu = Null
  /\ prevFetch = 0
  /\ lastOp = Op("init", "-", NoPatch, Null)
  /\ lastWriter = NoWriter
  /\ quiet = TRUE
  /\ lastDelivered = DeliveredBy(menuDataSubject[1].data)
  /\ menuView = Null
  /\ ChannelOfStore

PatchNext ==
  /\ lastOp.op = "init"
  /\ \/ \E updatedItem \in Patches : onMenuItemUpdated(updatedItem)
     \/ \E id \in PatchIds : onMenuItemSoldOut(id)

SpecPatch == PatchInit /\ [][PatchNext]_vars

(***************************************************************************)
(* A run of item events on a held catalog: the backend sends item updates  *)
(* and sold-outs one after the other, nothing else happens.                *)
(***************************************************************************)
SeqCatalogs ==
  { PublicMenuData(sh, q, [i \in ItemIds |-> q[i] > 0],
                   [i \in ItemIds |-> IF i = "a1" THEN 5 ELSE 8]) :
      sh \in Shapes, q \in [ItemIds -> Quantities] }

SeqPatches == { p \in Patches : p.name = NoName }

SeqInit ==
  /\ build \in Builds
  /\ menuDataSubject \in { Some([ref |-> 0, data |-> C]) : C \in SeqCatalogs }
  /\ streams = [c \in Callers |-> NoStream]
  /\ pipeMemory = [c \in Callers |-> Null]
  /\ lastSeen = [c \in Callers |-> Null]
  /\ delivered = [c \in Callers |-> Null]
  /\ nFetch = 0
  /\ prevMenu = Null
  /\ prevFetch = 0
  /\ lastOp = Op("init", "-", NoPatch, Null)
  /\ lastWriter = NoWriter
  /\ quiet = TRUE
  /\ lastDelivered = DeliveredBy(menuDataSubject[1].data)
  /\ menuView = Null
  /\ ChannelOfStore

SeqNext ==
  \/ \E updatedItem \in SeqPatches : onMenuItemUpdated(updatedItem)
  \/ \E id \in PatchIds : onMenuItemSoldOut(id)

SpecSeq == SeqInit /\ [][SeqNext]_vars

(***************************************************************************)
(* The store fed by push events alone, with the item updates the wire can  *)
(* carry: quantitaDisponibile is declared `number`, and no handler checks   *)
(* it.                                                                     *)
(***************************************************************************)
WireQuantities == (-1)..MaxQty

WirePatches ==
  [_id : {"a1", UnknownId}, quantitaDisponibile : WireQuantities,
   disponibile : BOOLEAN, name : {NoName}]

WireNext ==
  \/ \E updatedItem \in WirePatches : onMenuItemUpdated(updatedItem)
  \/ \E id \in {"a1", UnknownId} : onMenuItemSoldOut(id)
  \/ \E newMenuData \in ServerCatalogs : onMenuReset(newMenuData)

SpecWire == Init /\ [][WireNext]_vars

(***************************************************************************)
(* The menu page on a held catalog: the component asks for the menu, its   *)
(* async pipe subscribes, and item events keep arriving.                   *)
(***************************************************************************)
ViewNext ==
  \/ getMenuData("menu")
  \/ subscribe("menu")
  \/ \E id \in PatchIds : onMenuItemSoldOut(id)

SpecView == PatchInit /\ [][ViewNext]_vars

(***************************************************************************)
(* SocketService: connect(), listen(), disconnect() and the connection.    *)
(***************************************************************************)
SocketPayloads == {"x", "y"}

\* the event names the listen() calls of a run are made with
ListenEvents == {"menu_item_updated", "menu_reset"}

\* the connection the next io() call makes
FreshSocket ==
  CHOOSE k \in SocketIds :
    /\ conns[k].status = "absent"
    /\ \A j \in SocketIds : j < k => conns[j].status # "absent"

\* io() can still be called within the bound
CanConnect == socket # Null \/ \E k \in SocketIds : conns[k].status = "absent"

\* connect(): `if (this.socket) return;`, else io(...) and the three
\* lifecycle handlers; the values of socket and conns it leaves
ConnectedSocket == IF socket # Null THEN socket ELSE Some(FreshSocket)

ConnectedConns ==
  IF socket # Null THEN conns ELSE [conns EXCEPT ![FreshSocket] = NewConn]

\* variant: no `if (this.socket) return;`, every call opens a connection
connectUnguarded ==
  /\ \E k \in SocketIds : conns[k].status = "absent"
  /\ socket' = Some(FreshSocket)
  /\ conns' = [conns EXCEPT ![FreshSocket] = NewConn]
  /\ received' = NothingReceived
  /\ lastSock' = SockOp("connect", "-", "-", "-")
  /\ UNCHANGED listeners
  /\ UNCHANGED storeVars

\* variant: connect() registers the handlers of the active subscriptions on
\* the connection it opens
connectRebinds ==
  /\ CanConnect
  /\ socket' = ConnectedSocket
  /\ conns' = IF socket # Null THEN conns
              ELSE [conns EXCEPT ![FreshSocket] =
                      [NewConn EXCEPT !.handlers =
                         [l \in Listeners |->
                            IF listeners[l].st = "active" THEN 1 ELSE 0]]]
  /\ received' = NothingReceived
  /\ lastSock' = SockOp("connect", "-", "-", "-")
  /\ UNCHANGED listeners
  /\ UNCHANGED storeVars

connect ==
  /\ CanConnect
  /\ socket' = ConnectedSocket
  /\ conns' = ConnectedConns
  /\ received' = NothingReceived
  /\ lastSock' = SockOp("connect", "-", "-", "-")
  /\ UNCHANGED listeners
  /\ UNCHANGED storeVars

\* variant: listen() itself connects and registers the handler
listenEager(l, eventName) ==
  /\ listeners[l].st = "none"
  /\ CanConnect
  /\ socket' = ConnectedSocket
  /\ conns' = [ConnectedConns EXCEPT ![ConnectedSocket[1]].handlers[l] = @ + 1]
  /\ listeners' = [listeners EXCEPT ![l] =
       [event |-> eventName, st |-> "created", sock |-> 0]]
  /\ received' = NothingReceived
  /\ lastSock' = SockOp("listen", l, eventName, "-")
  /\ UNCHANGED storeVars

\* listen(eventName): builds the Observable, nothing runs yet
listen(l, eventName) ==
  /\ listeners[l].st = "none"
  /\ listeners' = [listeners EXCEPT ![l] =
       [event |-> eventName, st |-> "created", sock |-> 0]]
  /\ received' = NothingReceived
  /\ lastSock' = SockOp("listen", l, eventName, "-")
  /\ UNCHANGED << socket, conns >>
  /\ UNCHANGED storeVars

\* subscribe() on the Observable of listen(): connect() when there is no
\* socket, then this.socket?.on(eventName, handler)
listenSubscribe(l) ==
  /\ listeners[l].st = "created"
  /\ CanConnect
  /\ socket' = ConnectedSocket
  /\ conns' = [ConnectedConns EXCEPT ![ConnectedSocket[1]].handlers[l] = @ + 1]
  /\ listeners' = [listeners EXCEPT ![l].st = "active", ![l].sock = ConnectedSocket[1]]
  /\ received' = NothingReceived
  /\ lastSock' = SockOp("subscribe", l, listeners[l].event, "-")
  /\ UNCHANGED storeVars

\* variant: the teardown calls socket.off(eventName) without the handler,
\* which removes every handler of that event
listenUnsubscribeEvent(l) ==
  /\ listeners[l].st = "active"
  /\ conns' = IF socket = Null THEN conns
              ELSE [conns EXCEPT ![socket[1]].handlers =
                      [m \in Listeners |->
                         IF listeners[m].event = listeners[l].event THEN 0 ELSE @[m]]]
  /\ listeners' = [listeners EXCEPT ![l].st = "cancelled"]
  /\ received' = NothingReceived
  /\ lastSock' = SockOp("unsubscribe", l, listeners[l].event, "-")
  /\ UNCHANGED socket
  /\ UNCHANGED storeVars

\* unsubscribe(): the teardown this.socket?.off(eventName, handler) removes
\* the handler from the connection in use, if there is one
listenUnsubscribe(l) ==
  /\ listeners[l].st = "active"
  /\ conns' = IF socket = Null THEN conns
              ELSE [conns EXCEPT ![socket[1]].handlers[l] = IF @ > 0 THEN @ - 1 ELSE 0]
  /\ listeners' = [listeners EXCEPT ![l].st = "cancelled"]
  /\ received' = NothingReceived
  /\ lastSock' = SockOp("unsubscribe", l, listeners[l].event, "-")
  /\ UNCHANGED socket
  /\ UNCHANGED storeVars

\* variant: the connection is closed but the field keeps the socket
disconnectKeepsSocket ==
  /\ conns' = IF socket = Null THEN conns
              ELSE [conns EXCEPT ![socket[1]].status = "closed"]
  /\ received' = NothingReceived
  /\ lastSock' = SockOp("disconnect", "-", "-", "-")
  /\ UNCHANGED << socket, listeners >>
  /\ UNCHANGED storeVars

\* disconnect(): this.socket?.disconnect(); this.socket = undefined
disconnect ==
  /\ conns' = IF socket = Null THEN conns
              ELSE [conns EXCEPT ![socket[1]].status = "closed"]
  /\ socket' = Null
  /\ received' = NothingReceived
  /\ lastSock' = SockOp("disconnect", "-", "-", "-")
  /\ UNCHANGED listeners
  /\ UNCHANGED storeVars

\* the handshake of connection k succeeds: 'connect' fires, its handler logs
onConnect(k) ==
  /\ conns[k].status = "connecting"
  /\ conns' = [conns EXCEPT ![k].status = "connected", ![k].attempts = 0]
  /\ received' = NothingReceived
  /\ lastSock' = SockOp("onConnect", k, "connect", "-")
  /\ UNCHANGED << socket, listeners >>
  /\ UNCHANGED storeVars

\* why a connection goes down: the transport is lost, or the server closes it
DisconnectReasons == {"transport close", "io server disconnect"}

\* an attempt to open connection k fails: 'connect_error' fires, its handler
\* logs; socket.io starts the next reconnection attempt while fewer than
\* reconnectionAttempts have been made, else it gives up
onConnectError(k) ==
  /\ conns[k].status = "connecting"
  /\ conns' = IF conns[k].attempts < reconnectionAttempts
                THEN [conns EXCEPT ![k].attempts = @ + 1, ![k].lost = TRUE]
                ELSE [conns EXCEPT ![k].status = "failed", ![k].attempts = 0,
                                   ![k].lost = TRUE]
  /\ received' = NothingReceived
  /\ lastSock' = SockOp("onConnectError", k, "connect_error", "-")
  /\ UNCHANGED << socket, listeners >>
  /\ UNCHANGED storeVars

\* variant: the 'disconnect' handler fails the streams of the connection
onDisconnectFailsStreams(k, reason) ==
  /\ conns[k].status = "connected"
  /\ conns' = IF reason = "io server disconnect"
                THEN [conns EXCEPT ![k].status = "down", ![k].lost = TRUE]
                ELSE [conns EXCEPT ![k].status = "connecting", ![k].attempts = 1,
                                   ![k].lost = TRUE]
  /\ listeners' = [l \in Listeners |->
       IF listeners[l].st = "active" /\ listeners[l].sock = k
         THEN [listeners[l] EXCEPT !.st = "cancelled"]
         ELSE listeners[l]]
  /\ received' = NothingReceived
  /\ lastSock' = SockOp("onDisconnect", k, "disconnect", reason)
  /\ UNCHANGED socket
  /\ UNCHANGED storeVars

\* connection k goes down: 'disconnect' fires, its handler logs the reason;
\* socket.io starts reconnecting unless the server closed the connection
onDisconnect(k, reason) ==
  /\ conns[k].status = "connected"
  /\ conns' = IF reason = "io server disconnect"
                THEN [conns EXCEPT ![k].status = "down", ![k].lost = TRUE]
                ELSE [conns EXCEPT ![k].status = "connecting", ![k].attempts = 1,
                                   ![k].lost = TRUE]
  /\ received' = NothingReceived
  /\ lastSock' = SockOp("onDisconnect", k, "disconnect", reason)
  /\ UNCHANGED << socket, listeners >>
  /\ UNCHANGED storeVars

\* n copies of payload
Copies(n, payload) == [i \in 1..n |-> payload]

\* variant: a queue, one subscriber takes the payload away from the others
onEventToOne(k, eventName, payload) ==
  /\ conns[k].status = "connected"
  /\ LET takers == { l \in Listeners : /\ listeners[l].event = eventName
                                        /\ listeners[l].st = "active"
                                        /\ conns[k].handlers[l] > 0 }
     IN  received' = [l \in Listeners |->
           IF takers # {} /\ l = CHOOSE t \in takers : TRUE
             THEN << payload >> ELSE << >>]
  /\ lastSock' = SockOp("onEvent", k, eventName, payload)
  /\ UNCHANGED << socket, conns, listeners >>
  /\ UNCHANGED storeVars

\* the backend emits eventName with payload on connection k: every handler
\* registered for eventName runs ngZone.run(() => subscriber.next(data)); a
\* subscriber that has unsubscribed is closed and drops the call
onEvent(k, eventName, payload) ==
  /\ conns[k].status = "connected"
  /\ received' = [l \in Listeners |->
       IF listeners[l].event = eventName /\ listeners[l].st = "active"
         THEN Copies(conns[k].handlers[l], payload)
         ELSE << >>]
  /\ lastSock' = SockOp("onEvent", k, eventName, payload)
  /\ UNCHANGED << socket, conns, listeners >>
  /\ UNCHANGED storeVars

SocketInit ==
  /\ build = "menu-data.ts"
  /\ menuDataSubject = Null
  /\ streams = [c \in Callers |-> NoStream]
  /\ pipeMemory = [c \in Callers |-> Null]
  /\ lastSeen = [c \in Callers |-> Null]
  /\ delivered = [c \in Callers |-> Null]
  /\ nFetch = 0
  /\ prevMenu = Null
  /\ prevFetch = 0
  /\ lastOp = Op("init", "-", NoPatch, Null)
  /\ lastWriter = NoWriter
  /\ quiet = TRUE
  /\ lastDelivered = [i \in ItemIds |-> Null]
  /\ menuView = Null
  /\ ChannelInit

SocketNext ==
  \/ connect
  \/ \E l \in StoreListenerIds, eventName \in ListenEvents : listen(l, eventName)
  \/ \E l \in Listeners : listenSubscribe(l)
  \/ \E l \in Listeners : listenUnsubscribe(l)
  \/ disconnect
  \/ \E k \in SocketIds : onConnect(k)
  \/ \E k \in SocketIds, eventName \in PushEvents, payload \in SocketPayloads :
       onEvent(k, eventName, payload)

SpecSocket == SocketInit /\ [][SocketNext]_vars

(***************************************************************************)
(* SocketService on a network that fails: attempts to connect fail and     *)
(* established connections go down.                                        *)
(***************************************************************************)
ReconnectListeners == {"l1", "l2"}

ReconnectNext ==
  \/ connect
  \/ \E l \in ReconnectListeners, eventName \in ListenEvents : listen(l, eventName)
  \/ \E l \in Listeners : listenSubscribe(l)
  \/ \E l \in Listeners : listenUnsubscribe(l)
  \/ disconnect
  \/ \E k \in SocketIds : onConnect(k)
  \/ \E k \in SocketIds, eventName \in ListenEvents, payload \in SocketPayloads :
       onEvent(k, eventName, payload)
  \/ \E k \in SocketIds : onConnectError(k)
  \/ \E k \in SocketIds, reason \in DisconnectReasons : onDisconnect(k, reason)

SpecReconnect == SocketInit /\ [][ReconnectNext]_vars

(***************************************************************************)
(* MenuDataService on its SocketService: the constructor has connected and *)
(* subscribed the three listeners, the backend pushes events over the      *)
(* connections, the application may disconnect() and connect() again, and  *)
(* another component may listen() beside the store.                        *)
(***************************************************************************)

\* the handler of subscription l is registered on connection k and its
\* subscriber is still open, so an event on k reaches the callback of l
Hears(k, l) == conns[k].handlers[l] > 0 /\ listeners[l].st = "active"

\* the backend emits eventName with payload on connection k, as seen by
\* SocketService: every registered handler of the event runs
Emit(k, eventName, payload) ==
  /\ conns[k].status = "connected"
  /\ received' = [l \in Listeners |->
       IF listeners[l].event = eventName /\ listeners[l].st = "active"
         THEN Copies(conns[k].handlers[l], payload)
         ELSE << >>]
  /\ lastSock' = SockOp("onEvent", k, eventName, payload)
  /\ UNCHANGED << socket, conns, listeners >>

\* no callback of the store runs
StoreUntouched ==
  /\ NothingDelivered
  /\ UNCHANGED << menuDataSubject, pipeMemory, lastSeen >>

\* 'menu_item_updated' on connection k
pushMenuItemUpdated(k, updatedItem) ==
  /\ Emit(k, "menu_item_updated", updatedItem)
  /\ IF Hears(k, "l1") THEN updateMenuItemLocally(updatedItem) ELSE StoreUntouched
  /\ UNCHANGED << build, streams, nFetch >>
  /\ RecordStore(IF Hears(k, "l1") THEN "menu_item_updated" ELSE "unheard",
                 "-", updatedItem, Null)

\* 'menu_item_sold_out' on connection k
pushMenuItemSoldOut(k, id) ==
  /\ Emit(k, "menu_item_sold_out", [_id |-> id])
  /\ IF Hears(k, "l2") THEN updateMenuItemLocally(SoldOutPatch(id)) ELSE StoreUntouched
  /\ UNCHANGED << build, streams, nFetch >>
  /\ RecordStore(IF Hears(k, "l2") THEN "menu_item_sold_out" ELSE "unheard",
                 "-", [NoPatch EXCEPT !._id = id], Null)

\* 'menu_reset' on connection k
pushMenuReset(k, newMenuData) ==
  /\ Emit(k, "menu_reset", newMenuData)
  /\ IF Hears(k, "l3")
       THEN SubjectNext(Some(NewObject(newMenuData)), {})
       ELSE StoreUntouched
  /\ UNCHANGED << build, streams, nFetch >>
  /\ RecordStore(IF Hears(k, "l3") THEN "menu_reset" ELSE "unheard",
                 "-", NoPatch, Some(newMenuData))

\* the teardown of subscription l, this.socket?.off(eventName, handler), on
\* the connections cs; a subscription that is not active has none to run
Off(cs, l) ==
  IF socket = Null \/ listeners[l].st # "active" THEN cs
  ELSE [cs EXCEPT ![socket[1]].handlers[l] = IF @ > 0 THEN @ - 1 ELSE 0]

\* variant: the menu_reset subscription was not added to this.subscriptions
ngOnDestroyKeepsReset ==
  /\ conns' = Off(Off(conns, "l1"), "l2")
  /\ listeners' = [l \in Listeners |->
       IF l \in {"l1", "l2"} /\ listeners[l].st = "active"
         THEN [listeners[l] EXCEPT !.st = "cancelled"]
         ELSE listeners[l]]
  /\ received' = NothingReceived
  /\ lastSock' = SockOp("ngOnDestroy", "-", "-", "-")
  /\ UNCHANGED socket
  /\ UNCHANGED storeVars

\* ngOnDestroy(): this.subscriptions.unsubscribe() runs the teardown of the
\* three subscriptions and closes their subscribers
ngOnDestroy ==
  /\ conns' = Off(Off(Off(conns, "l1"), "l2"), "l3")
  /\ listeners' = [l \in Listeners |->
       IF l \in StoreListenerIds /\ listeners[l].st = "active"
         THEN [listeners[l] EXCEPT !.st = "cancelled"]
         ELSE listeners[l]]
  /\ received' = NothingReceived
  /\ lastSock' = SockOp("ngOnDestroy", "-", "-", "-")
  /\ UNCHANGED socket
  /\ UNCHANGED storeVars

WiredNext ==
  \/ connect
  \/ disconnect
  \/ \E k \in SocketIds : onConnect(k)
  \/ listen("l4", "menu_reset")
  \/ listenSubscribe("l4")
  \/ listenUnsubscribe("l4")
  \/ ngOnDestroy
  \/ \E k \in SocketIds, updatedItem \in StorePatches : pushMenuItemUpdated(k, updatedItem)
  \/ \E k \in SocketIds, id \in {"a1", UnknownId} : pushMenuItemSoldOut(k, id)
  \/ \E k \in SocketIds, newMenuData \in ServerCatalogs : pushMenuReset(k, newMenuData)

SpecWired == Init /\ [][WiredNext]_vars

(***************************************************************************)
(* Properties.                                                             *)
(***************************************************************************)
\* same categories in the same order, each with the same number of items
SameLayout(C, R) ==
  /\ DOMAIN R.categories = DOMAIN C.categories
  /\ R.allergens = C.allergens
  /\ \A c \in DOMAIN C.categories :
       /\ R.categories[c]._id = C.categories[c]._id
       /\ R.categories[c].name = C.categories[c].name
       /\ DOMAIN R.categories[c].items = DOMAIN C.categories[c].items

Held == menuDataSubject # Null
Current == menuDataSubject[1].data
Previous == prevMenu[1]

\* C1 (patch locality): after a menu_item_updated event whose identifier is
\* present in the catalog, the catalog has the same categories and items in
\* the same order, one item carries the update's quantity and availability
\* with all its other fields as before, and every other item is as before.
PatchLocality ==
  ( /\ lastOp.op = "menu_item_updated"
    /\ prevMenu # Null
    /\ lastOp.patch._id \in ItemIdsOf(Previous) )
  => /\ Held
     /\ SameLayout(Previous, Current)
     /\ \E pos \in Positions(Previous) :
          /\ ItemAt(Previous, pos)._id = lastOp.patch._id
          /\ ItemAt(Current, pos) =
               [_id |-> ItemAt(Previous, pos)._id,
                name |-> ItemAt(Previous, pos).name,
                price |-> ItemAt(Previous, pos).price,
                quantitaDisponibile |-> lastOp.patch.quantitaDisponibile,
                disponibile |-> lastOp.patch.disponibile]
          /\ \A other \in Positions(Previous) \ {pos} :
               ItemAt(Current, other) = ItemAt(Previous, other)

\* an update that carries a name changes the second item of the second
\* category of a two-category catalog
PatchLocalityWitness ==
  /\ lastOp.op = "menu_item_updated"
  /\ lastOp.patch._id = "a1"
  /\ lastOp.patch.name = "Hugo"
  /\ prevMenu # Null
  /\ Len(Previous.categories) = 2
  /\ Len(Previous.categories[2].items) = 2
  /\ Previous.categories[2].items[2]._id = "a1"
  /\ Previous.categories[2].items[2].disponibile # lastOp.patch.disponibile
  /\ Previous.categories[2].items[2].quantitaDisponibile # lastOp.patch.quantitaDisponibile
  /\ Held /\ Current # Previous

\* C2 (unknown identifier): an item update or sold-out event whose identifier
\* matches no item of the held catalog leaves the catalog structurally equal.
UnknownIdentifierNoOp ==
  ( /\ lastOp.op \in {"menu_item_updated", "menu_item_sold_out"}
    /\ prevMenu # Null
    /\ lastOp.patch._id \notin ItemIdsOf(Previous) )
  => Content(menuDataSubject) = prevMenu

\* an update for "zzz" met a catalog with two items, one of them with
\* different quantity and availability
UnknownIdentifierWitness ==
  /\ lastOp.op = "menu_item_updated"
  /\ lastOp.patch._id = UnknownId
  /\ prevMenu # Null
  /\ Cardinality(Positions(Previous)) = 2
  /\ \E pos \in Positions(Previous) :
       /\ ItemAt(Previous, pos).quantitaDisponibile # lastOp.patch.quantitaDisponibile
       /\ ItemAt(Previous, pos).disponibile # lastOp.patch.disponibile
  /\ Content(menuDataSubject) = prevMenu

\* C3 (sold out): a menu_item_sold_out event for identifier i leaves the
\* catalog that a menu_item_updated event with identifier i, quantity 0 and
\* availability false leaves: item i, if present, has quantity 0 and is
\* unavailable at its old place, and nothing else differs.
SoldOutIsUpdateToZero ==
  ( lastOp.op = "menu_item_sold_out" /\ prevMenu # Null )
  => /\ Held
     /\ Current = UpdatedMenu(Previous,
                    [_id |-> lastOp.patch._id, quantitaDisponibile |-> 0,
                     disponibile |-> FALSE, name |-> NoName])
     /\ SameLayout(Previous, Current)
     /\ \A pos \in Positions(Previous) :
          ItemAt(Current, pos) =
            IF ItemAt(Previous, pos)._id = lastOp.patch._id
              THEN [ItemAt(Previous, pos) EXCEPT !.quantitaDisponibile = 0,
                                                 !.disponibile = FALSE]
              ELSE ItemAt(Previous, pos)

\* the end-to-end scenario: a1, available with a positive quantity in the
\* only category, is sold out
SoldOutWitness ==
  /\ lastOp.op = "menu_item_sold_out"
  /\ lastOp.patch._id = "a1"
  /\ prevMenu # Null
  /\ Len(Previous.categories) = 1
  /\ Len(Previous.categories[1].items) = 1
  /\ Previous.categories[1].items[1] = MenuItem("a1", 5, MaxQty, TRUE)
  /\ Held
  /\ Current.categories[1].items[1] = MenuItem("a1", 5, 0, FALSE)

\* C4 (reset): after a menu_reset event the held catalog is the event's
\* payload, whatever was held before.
ResetReplacesWholesale ==
  lastOp.op = "menu_reset" => Content(menuDataSubject) = lastOp.data

\* a reset replaced a held catalog of a different layout
ResetWitness ==
  /\ lastOp.op = "menu_reset"
  /\ prevMenu # Null
  /\ Held
  /\ Len(Previous.categories) # Len(Current.categories)
  /\ ItemIdsOf(Previous) # ItemIdsOf(Current)

\* the last step called menuDataSubject.next()
Emitted ==
  \/ lastOp.op \in {"menu_reset", "httpResponse"}
  \/ lastOp.op \in {"menu_item_updated", "menu_item_sold_out"} /\ prevMenu # Null

\* the consumer's current stream has sent an HTTP request
Fetched(c) ==
  streams[c].kind = "http" /\ streams[c].st \in {"pending", "complete", "error"}

NoneDelivered == \A s \in Callers : delivered[s] = Null

\* C5 (first load keeps receiving updates): getMenuData() with nothing held
\* fetches; the response becomes the held catalog and is yielded to the
\* caller's stream, and that stream then yields every later value of the
\* store as well.
FirstLoadStreamFollowsStore ==
  \A c \in Callers :
    /\ ( lastOp.op = "getMenuData" /\ lastOp.who = c /\ prevMenu = Null )
         => streams[c].kind = "http"
    /\ ( streams[c].op = "getMenuData" /\ streams[c].kind = "http" )
         => /\ ( lastOp.op = "subscribe" /\ lastOp.who = c )
                 => streams[c].st = "pending" /\ nFetch = prevFetch + 1
            /\ ( lastOp.op = "httpResponse" /\ lastOp.who = c )
                 => /\ Content(menuDataSubject) = lastOp.data
                    /\ delivered[c] = lastOp.data
            /\ ( streams[c].st = "complete" /\ Emitted )
                 => delivered[c] = Content(menuDataSubject)

\* C6 (cached read): getMenuData() with a catalog held starts no request and
\* returns menuData$; a new subscriber of it at once receives the held
\* catalog and then every value the store takes.
CachedReadFollowsStore ==
  \A c \in Callers :
    /\ ( lastOp.op = "getMenuData" /\ lastOp.who = c /\ prevMenu # Null )
         => streams[c].kind = "menuData$" /\ nFetch = prevFetch
    /\ ( streams[c].op = "getMenuData" /\ streams[c].kind = "menuData$" )
         => /\ ~Fetched(c)
            /\ ( lastOp.op = "subscribe" /\ lastOp.who = c )
                 => /\ nFetch = prevFetch
                    /\ Held
                    /\ delivered[c] = Content(menuDataSubject)
            /\ ( streams[c].st = "subscribed" /\ Emitted )
                 => delivered[c] = Content(menuDataSubject)

\* a consumer that subscribed through the cached path receives the catalog
\* changed by an item update
CachedReadWitness ==
  \E c \in Callers :
    /\ streams[c] = [op |-> "getMenuData", kind |-> "menuData$", st |-> "subscribed"]
    /\ lastOp.op = "menu_item_updated"
    /\ prevMenu # Null
    /\ Content(menuDataSubject) # prevMenu
    /\ delivered[c] = Content(menuDataSubject)
    /\ nFetch = 0

\* C7 as stated (idempotent cache read): while no reload and no push event
\* has happened, two getMenuData() calls send at most one request between
\* them and their consumers observe the same catalog.
IdempotentCacheRead ==
  quiet =>
    \A c, d \in Callers :
      ( c # d /\ streams[c].op = "getMenuData" /\ streams[d].op = "getMenuData" )
      => /\ ~(Fetched(c) /\ Fetched(d))
         /\ ( lastSeen[c] # Null /\ lastSeen[d] # Null ) => lastSeen[c] = lastSeen[d]

\* C7 as amended: a getMenuData() call made when the slot was last written by
\* an earlier getMenuData() fetch sends no request, and its subscriber
\* observes the catalog the first caller was given.
SequentialCacheRead ==
  /\ ( lastOp.op = "getMenuData" /\ lastWriter.op = "getMenuData" )
       => /\ streams[lastOp.who].kind = "menuData$"
          /\ nFetch = prevFetch
  /\ \A c, d \in Callers :
       ( /\ c # d
         /\ lastWriter = [op |-> "getMenuData", who |-> d]
         /\ streams[d] = [op |-> "getMenuData", kind |-> "http", st |-> "complete"]
         /\ streams[c].op = "getMenuData"
         /\ streams[c].kind = "menuData$" )
       => /\ ~Fetched(c)
          /\ ( lastOp.op = "subscribe" /\ lastOp.who = c ) => nFetch = prevFetch
          /\ streams[c].st = "subscribed"
               => /\ lastSeen[c] # Null
                  /\ lastSeen[c] = lastSeen[d]
                  /\ lastSeen[c] = Content(menuDataSubject)

\* the first caller fetched, the second called afterwards and subscribed: one
\* request in total, the same catalog for both
SequentialCacheReadWitness ==
  \E c, d \in Callers :
    /\ c # d
    /\ quiet
    /\ lastWriter = [op |-> "getMenuData", who |-> d]
    /\ streams[d] = [op |-> "getMenuData", kind |-> "http", st |-> "complete"]
    /\ streams[c] = [op |-> "getMenuData", kind |-> "menuData$", st |-> "subscribed"]
    /\ lastOp.op = "subscribe" /\ lastOp.who = c
    /\ nFetch = 1
    /\ lastSeen[c] # Null /\ lastSeen[c] = lastSeen[d]

\* C8 (no duplicate emission): a push event that leaves the held catalog
\* structurally as it was delivers nothing to the subscribers of menuData$.
NoDuplicateEmission ==
  ( lastOp.op \in PushEvents /\ prevMenu # Null /\ Content(menuDataSubject) = prevMenu )
  => NoneDelivered

\* C9 (failed first load): when the request of getMenuData() fails the
\* caller's stream fails, the slot keeps what it held (absent stays absent),
\* no subscriber receives anything, and a getMenuData() call with nothing held
\* returns a stream whose subscription sends a new request.
FailedFetchStoresNothing ==
  \A c \in Callers :
    /\ ( lastOp.op = "httpError" /\ lastOp.who = c /\ streams[c].op = "getMenuData" )
         => /\ streams[c].st = "error"
            /\ Content(menuDataSubject) = prevMenu
            /\ NoneDelivered
    /\ ( lastOp.op = "getMenuData" /\ lastOp.who = c /\ menuDataSubject = Null )
         => streams[c] = [op |-> "getMenuData", kind |-> "http", st |-> "returned"]
    /\ ( lastOp.op = "subscribe" /\ lastOp.who = c /\ streams[c].op = "getMenuData"
         /\ streams[c].kind = "http" )
         => streams[c].st = "pending" /\ nFetch = prevFetch + 1

\* the request of getMenuData() failed with nothing held while the other
\* consumer was subscribed to menuData$
FailedFetchWitness ==
  \E c, d \in Callers :
    /\ c # d
    /\ lastOp.op = "httpError" /\ lastOp.who = c
    /\ streams[c] = [op |-> "getMenuData", kind |-> "http", st |-> "error"]
    /\ menuDataSubject = Null
    /\ streams[d].kind = "menuData$" /\ streams[d].st = "subscribed"

\* C10 (reload): reloadMenu() returns the HTTP stream whether or not a catalog
\* is held, subscribing sends a request, and the response becomes the held
\* catalog, reaches every subscriber of menuData$ and the caller.
ReloadAlwaysFetches ==
  \A c \in Callers :
    /\ ( lastOp.op = "reloadMenu" /\ lastOp.who = c )
         => streams[c] = [op |-> "reloadMenu", kind |-> "http", st |-> "returned"]
    /\ streams[c].op = "reloadMenu"
         => /\ ( lastOp.op = "subscribe" /\ lastOp.who = c )
                 => streams[c].st = "pending" /\ nFetch = prevFetch + 1
            /\ ( lastOp.op = "httpResponse" /\ lastOp.who = c )
                 => /\ Content(menuDataSubject) = lastOp.data
                    /\ delivered[c] = lastOp.data
                    /\ \A s \in Callers : IsSubscribed(s) => delivered[s] = lastOp.data

\* a reload response replaced a different held catalog and reached the other
\* consumer, a subscriber of menuData$
ReloadWitness ==
  \E c, d \in Callers :
    /\ c # d
    /\ lastOp.op = "httpResponse" /\ lastOp.who = c
    /\ streams[c] = [op |-> "reloadMenu", kind |-> "http", st |-> "complete"]
    /\ prevMenu # Null /\ prevMenu # lastOp.data
    /\ IsSubscribed(d)
    /\ delivered[d] = lastOp.data /\ delivered[c] = lastOp.data
    /\ Content(menuDataSubject) = lastOp.data

\* C11 (failed fetch keeps the cache): when the request of reloadMenu() or
\* getMenuData() fails, the subject keeps the very object it held, the failing
\* call's stream is the only one that changes and it ends in error, and no
\* consumer receives anything; the other consumers' streams, what they last
\* received and the memory of their pipes are as before.
FailedFetchKeepsCache ==
  [][ lastOp'.op = "httpError" =>
        LET c == lastOp'.who
        IN  /\ streams[c].op \in {"reloadMenu", "getMenuData"}
            /\ streams[c].st = "pending"
            /\ streams'[c] = [streams[c] EXCEPT !.st = "error"]
            /\ menuDataSubject' = menuDataSubject
            /\ \A d \in Callers : delivered'[d] = Null
            /\ \A d \in Callers \ {c} :
                 /\ streams'[d] = streams[d]
                 /\ pipeMemory'[d] = pipeMemory[d]
                 /\ lastSeen'[d] = lastSeen[d] ]_vars

\* a reload failed while a catalog was held and the other consumer, a
\* subscriber of menuData$, had received it
FailedFetchKeepsCacheWitness ==
  \E c, d \in Callers :
    /\ c # d
    /\ lastOp.op = "httpError" /\ lastOp.who = c
    /\ streams[c] = [op |-> "reloadMenu", kind |-> "http", st |-> "error"]
    /\ prevMenu # Null
    /\ Content(menuDataSubject) = prevMenu
    /\ IsSubscribed(d)
    /\ lastSeen[d] = prevMenu
    /\ NoneDelivered

\* the step is the handler of one of the events es, run with nothing held
HandledWithoutCatalog(es) == lastOp'.op \in es /\ menuDataSubject = Null

\* the step changes nothing a consumer can observe
NothingObservable ==
  /\ menuDataSubject' = Null
  /\ \A c \in Callers : delivered'[c] = Null
  /\ UNCHANGED << streams, pipeMemory, lastSeen, nFetch >>

\* C12 as stated (events without a catalog): an item update, a sold-out or a
\* reset event handled while nothing is held leaves the slot empty, delivers
\* nothing and fails no stream.
PushWithoutCatalogNoOp ==
  [][ HandledWithoutCatalog(PushEvents) => NothingObservable ]_vars

\* C12 as amended: an item update or a sold-out event handled while nothing
\* is held leaves the slot empty, delivers nothing and fails no stream; a
\* reset event handled while nothing is held makes its payload the held
\* catalog and delivers it to every subscriber of menuData$.
ItemEventWithoutCatalogNoOp ==
  [][ /\ HandledWithoutCatalog({"menu_item_updated", "menu_item_sold_out"})
           => NothingObservable
      /\ HandledWithoutCatalog({"menu_reset"})
           => /\ Content(menuDataSubject') = lastOp'.data
              /\ \A c \in Callers :
                   delivered'[c] = IF IsSubscribed(c) THEN lastOp'.data ELSE Null
              /\ UNCHANGED << streams, nFetch >> ]_vars

\* an update for a1 arrived with nothing held while a consumer was
\* subscribed to menuData$ and another one waited for its first load
ItemEventWithoutCatalogWitness ==
  \E c, d \in Callers :
    /\ lastOp.op = "menu_item_updated"
    /\ lastOp.patch._id = "a1"
    /\ prevMenu = Null
    /\ menuDataSubject = Null
    /\ IsSubscribed(c) /\ lastSeen[c] = Null
    /\ streams[d] = [op |-> "getMenuData", kind |-> "http", st |-> "pending"]
    /\ NoneDelivered

\* C13 (update carries a name): after a menu_item_updated event that brings a
\* name and whose identifier is in the held catalog, the matched item has the
\* event's name, quantity and availability.
UpdateAppliesName ==
  ( /\ lastOp.op = "menu_item_updated"
    /\ lastOp.patch.name # NoName
    /\ prevMenu # Null
    /\ lastOp.patch._id \in ItemIdsOf(Previous) )
  => /\ Held
     /\ SameLayout(Previous, Current)
     /\ \E pos \in Positions(Previous) :
          /\ ItemAt(Previous, pos)._id = lastOp.patch._id
          /\ ItemAt(Current, pos).name = lastOp.patch.name
          /\ ItemAt(Current, pos).quantitaDisponibile = lastOp.patch.quantitaDisponibile
          /\ ItemAt(Current, pos).disponibile = lastOp.patch.disponibile

\* C14 (delivery order): whatever events have been handled, every item of
\* the held catalog has the quantity and availability the backend last sent
\* for its identifier: those of the last item event that named it or, when
\* none did, those of the catalog it came in.
LastDeliveredWins ==
  Held =>
    \A pos \in Positions(Current) :
      << ItemAt(Current, pos).quantitaDisponibile, ItemAt(Current, pos).disponibile >>
        = lastDelivered[ItemAt(Current, pos)._id]

\* a1 and a2 both carry values that only an item event can have set (a
\* catalog of the run starts with disponibile = (quantity > 0)), and a
\* further update of a1 has replaced the earlier one while a2 kept its own
LastDeliveredWitness ==
  /\ lastOp.op = "menu_item_updated"
  /\ lastOp.patch._id = "a1"
  /\ lastOp.patch.quantitaDisponibile = MaxQty
  /\ lastOp.patch.disponibile
  /\ prevMenu # Null
  /\ \E p1, p2 \in Positions(Previous) :
       /\ ItemAt(Previous, p1) = MenuItem("a1", 5, 0, TRUE)
       /\ ItemAt(Previous, p2) = MenuItem("a2", 8, MaxQty, FALSE)
       /\ ItemAt(Current, p1) = MenuItem("a1", 5, MaxQty, TRUE)
       /\ ItemAt(Current, p2) = MenuItem("a2", 8, MaxQty, FALSE)

ItemEvents == {"menu_item_updated", "menu_item_sold_out"}

\* catalog R is catalog C with the quantity q and availability d written to
\* the item named id and nothing else touched
PatchedFrom(C, R, id, q, d) ==
  /\ SameLayout(C, R)
  /\ \A pos \in Positions(C) :
       ItemAt(R, pos) =
         IF ItemAt(C, pos)._id = id
           THEN [ItemAt(C, pos) EXCEPT !.quantitaDisponibile = q, !.disponibile = d]
           ELSE ItemAt(C, pos)

\* C15 (reload against item event, the last one applied wins): each is one
\* step on the slot.  A reloadMenu() response that finds a catalog written by
\* an item event replaces it with the response body; an item event that
\* finds a catalog written by a reloadMenu() response leaves that catalog
\* with the event's quantity and availability written to the named item.
ReloadAndPatchLastWins ==
  [][ /\ ( /\ lastOp'.op = "httpResponse"
           /\ streams[lastOp'.who].op = "reloadMenu"
           /\ lastWriter.op \in ItemEvents )
        => /\ Content(menuDataSubject') = lastOp'.data
           /\ lastWriter' = [op |-> "reloadMenu", who |-> lastOp'.who]
      /\ ( /\ lastOp'.op \in ItemEvents
           /\ lastWriter.op = "reloadMenu" )
        => /\ menuDataSubject # Null /\ menuDataSubject' # Null
           /\ PatchedFrom(menuDataSubject[1].data, menuDataSubject'[1].data,
                          lastOp'.patch._id,
                          IF lastOp'.op = "menu_item_sold_out" THEN 0
                            ELSE lastOp'.patch.quantitaDisponibile,
                          IF lastOp'.op = "menu_item_sold_out" THEN FALSE
                            ELSE lastOp'.patch.disponibile)
           /\ lastWriter'.op = lastOp'.op ]_vars

\* a reload was under way when a1 was sold out (no catalog of the backend
\* has a1 unavailable); its response then replaced the patched catalog and
\* reached the other consumer, a subscriber of menuData$
ReloadAfterPatchWitness ==
  \E c, d \in Callers :
    /\ c # d
    /\ lastOp.op = "httpResponse" /\ lastOp.who = c
    /\ streams[c] = [op |-> "reloadMenu", kind |-> "http", st |-> "complete"]
    /\ prevMenu # Null
    /\ \E pos \in Positions(Previous) : ItemAt(Previous, pos) = MenuItem("a1", 5, 0, FALSE)
    /\ Content(menuDataSubject) = lastOp.data
    /\ \E pos \in Positions(Current) : ItemAt(Current, pos) = MenuItem("a1", 5, MaxQty, TRUE)
    /\ lastWriter = [op |-> "reloadMenu", who |-> c]
    /\ IsSubscribed(d) /\ delivered[d] = lastOp.data

\* the stream of a getMenuData() request that awaits its response
PendingFirstLoad == [op |-> "getMenuData", kind |-> "http", st |-> "pending"]

FirstLoadPending(c) == streams[c] = PendingFirstLoad

\* C16 as stated (single flight): while nothing is held at most one
\* getMenuData() request is awaiting its response.
SingleFlightFirstLoad ==
  menuDataSubject = Null =>
    Cardinality({ c \in Callers : FirstLoadPending(c) }) <= 1

\* C16 as amended: while nothing is held every getMenuData() call returns
\* the HTTP stream, also when another caller's request is under way; each
\* subscription of such a stream sends a request of its own; and a response
\* is given to the caller whose request it answers and to nobody else that
\* is waiting, whose request stays under way.
EachFirstLoadFetches ==
  [][ LET c == lastOp'.who
      IN  /\ ( lastOp'.op = "getMenuData" /\ menuDataSubject = Null )
               => streams'[c] = [op |-> "getMenuData", kind |-> "http", st |-> "returned"]
          /\ ( /\ lastOp'.op = "subscribe"
               /\ streams[c].op = "getMenuData"
               /\ streams[c].kind = "http" )
               => /\ streams'[c] = PendingFirstLoad
                  /\ nFetch' = nFetch + 1
          /\ ( lastOp'.op = "httpResponse" /\ FirstLoadPending(c) )
               => /\ delivered'[c] = lastOp'.data
                  /\ Content(menuDataSubject') = lastOp'.data
                  /\ \A d \in Callers \ {c} :
                       FirstLoadPending(d)
                         => streams'[d] = PendingFirstLoad /\ delivered'[d] = Null ]_vars

\* both consumers called getMenuData() and subscribed with nothing held: two
\* requests were sent and the two received different catalogs, the second
\* response replacing the first one in the slot
EachFirstLoadFetchesWitness ==
  \E c, d \in Callers :
    /\ c # d
    /\ quiet
    /\ streams[c] = [op |-> "getMenuData", kind |-> "http", st |-> "complete"]
    /\ streams[d] = [op |-> "getMenuData", kind |-> "http", st |-> "complete"]
    /\ nFetch = 2
    /\ lastOp.op = "httpResponse" /\ lastOp.who = d
    /\ prevMenu = lastSeen[c]
    /\ lastSeen[d] = lastOp.data
    /\ lastSeen[c] # lastSeen[d]

\* the connections that are up or coming up
OpenConns == { k \in SocketIds : conns[k].status \in {"connecting", "connected"} }

\* listener l is subscribed with its handler on connection k
ActiveOn(l, k) == listeners[l].st = "active" /\ listeners[l].sock = k

\* C17 (subscription isolation): unsubscribing one listener changes nothing
\* but that listener: its handler is off the connection in use, every other
\* handler, every other listener, the connection in use and the status of
\* every connection are as before.  From then on an event reaches none of
\* the unsubscribed listeners, whose handlers are on no connected
\* connection, and still reaches every listener subscribed to its name on
\* the connection it arrives on.
SubscriptionIsolation ==
  /\ [][ lastSock'.op = "unsubscribe" =>
           LET l == lastSock'.who
           IN  /\ listeners[l].st = "active"
               /\ listeners'[l] = [listeners[l] EXCEPT !.st = "cancelled"]
               /\ \A m \in Listeners \ {l} : listeners'[m] = listeners[m]
               /\ socket' = socket
               /\ socket # Null => conns'[socket[1]].handlers[l] = 0
               /\ \A k \in SocketIds :
                    /\ conns'[k].status = conns[k].status
                    /\ conns'[k].lifecycle = conns[k].lifecycle
                    /\ \A m \in Listeners \ {l} :
                         conns'[k].handlers[m] = conns[k].handlers[m] ]_vars
  /\ [] ( \A l \in Listeners : listeners[l].st = "cancelled" =>
            /\ received[l] = << >>
            /\ \A k \in SocketIds :
                 conns[k].status = "connected" => conns[k].handlers[l] = 0 )
  /\ [] ( lastSock.op = "onEvent" =>
            \A m \in Listeners :
              ( ActiveOn(m, lastSock.who) /\ listeners[m].event = lastSock.event )
                => received[m] = << lastSock.data >> )

\* l1 was unsubscribed on the open connection; an event of its name then
\* arrived there: the other listener of that name received it, l1 did not,
\* and a listener of the other name is still subscribed
SubscriptionIsolationWitness ==
  \E k \in SocketIds, m, n \in Listeners :
    /\ lastSock.op = "onEvent" /\ lastSock.who = k
    /\ socket = Some(k) /\ conns[k].status = "connected"
    /\ listeners["l1"] = [event |-> lastSock.event, st |-> "cancelled", sock |-> k]
    /\ conns[k].handlers["l1"] = 0
    /\ received["l1"] = << >>
    /\ ActiveOn(m, k) /\ listeners[m].event = lastSock.event
    /\ received[m] = << lastSock.data >>
    /\ ActiveOn(n, k) /\ listeners[n].event # lastSock.event
    /\ conns[k].handlers[n] = 1

\* C18 (fan-out): an event that arrives on a connection is handed exactly
\* once to every listener subscribed to its name on that connection, however
\* many they are, and to no other listener.
FanOut ==
  lastSock.op = "onEvent" =>
    \A l \in Listeners :
      received[l] =
        IF ActiveOn(l, lastSock.who) /\ listeners[l].event = lastSock.event
          THEN << lastSock.data >>
          ELSE << >>

\* three listeners on the open connection, two of them of the same name:
\* an event of that name reached both once and not the third
FanOutWitness ==
  \E k \in SocketIds, l, m, n \in Listeners :
    /\ l # m
    /\ lastSock.op = "onEvent" /\ lastSock.who = k
    /\ socket = Some(k)
    /\ ActiveOn(l, k) /\ ActiveOn(m, k) /\ ActiveOn(n, k)
    /\ listeners[l].event = lastSock.event
    /\ listeners[m].event = lastSock.event
    /\ listeners[n].event # lastSock.event
    /\ received[l] = << lastSock.data >>
    /\ received[m] = << lastSock.data >>
    /\ received[n] = << >>

\* C19 (lazy subscription): subscribing a listener leaves a connection in
\* use (the one there was, untouched, or a new one that is connecting with
\* its three lifecycle handlers when there was none) and adds one handler,
\* the listener's, to that connection and nothing else to any connection;
\* listen() alone changes no connection, and a listener that was never
\* subscribed has no handler anywhere.
LazySubscription ==
  /\ [][ lastSock'.op = "subscribe" =>
           LET l == lastSock'.who
               k == socket'[1]
           IN  /\ socket' # Null
               /\ socket # Null => socket' = socket /\ conns'[k].status = conns[k].status
               /\ socket = Null => conns[k] = NoConn /\ conns'[k].status = "connecting"
               /\ conns'[k].lifecycle = [e \in LifecycleEvents |-> 1]
               /\ conns[k].handlers[l] = 0
               /\ conns'[k].handlers[l] = 1
               /\ \A m \in Listeners \ {l} : conns'[k].handlers[m] = conns[k].handlers[m]
               /\ \A j \in SocketIds \ {k} : conns'[j] = conns[j]
               /\ listeners'[l] = [event |-> listeners[l].event, st |-> "active", sock |-> k]
        ]_vars
  /\ [][ lastSock'.op = "listen" => socket' = socket /\ conns' = conns ]_vars
  /\ [] ( \A l \in Listeners : listeners[l].st \in {"none", "created"} =>
            \A k \in SocketIds : conns[k].handlers[l] = 0 )

\* with no socket stored (the first connection was closed by disconnect())
\* a subscription opened the second connection and put its one handler on
\* it, while another listen() call was never subscribed
LazySubscriptionWitness ==
  \E l, m \in Listeners :
    /\ lastSock.op = "subscribe" /\ lastSock.who = l
    /\ lastSock.before = Null
    /\ conns[1].status = "closed"
    /\ socket = Some(2)
    /\ conns[2].status = "connecting"
    /\ conns[2].handlers = [n \in Listeners |-> IF n = l THEN 1 ELSE 0]
    /\ listeners[l].st = "active" /\ listeners[l].sock = 2
    /\ listeners[m].st = "created"

\* C20 (connect() is idempotent): a connect() call that finds a socket stored
\* changes neither the stored socket nor any connection (no connection is
\* opened, no lifecycle handler added); in every state at most one
\* connection is up or coming up, none but the stored one, and every
\* connection made carries one handler per lifecycle event.
ConnectIdempotent ==
  /\ [][ ( lastSock'.op = "connect" /\ socket # Null )
           => socket' = socket /\ conns' = conns /\ listeners' = listeners ]_vars
  /\ [] ( /\ Cardinality(OpenConns) <= 1
          /\ OpenConns \subseteq (IF socket = Null THEN {} ELSE {socket[1]})
          /\ \A k \in SocketIds :
               conns[k].status # "absent"
                 => conns[k].lifecycle = [e \in LifecycleEvents |-> 1] )

\* connect() was called on an established connection that carries the
\* handlers of two listeners: still that one connection, nothing added
ConnectIdempotentWitness ==
  \E l, m \in Listeners :
    /\ l # m
    /\ lastSock.op = "connect"
    /\ lastSock.before = Some(1)
    /\ socket = Some(1)
    /\ conns[1].status = "connected"
    /\ conns[2] = NoConn
    /\ ActiveOn(l, 1) /\ ActiveOn(m, 1)
    /\ conns[1].handlers[l] = 1 /\ conns[1].handlers[m] = 1

\* C21 (disconnect): disconnect() closes the connection in use, keeps its
\* registered handlers and every other connection as they are, and leaves
\* no socket stored; with no socket stored it changes nothing.  A connect()
\* call or a subscription that finds no socket stored opens a connection
\* io() had not made before, which starts connecting.
DisconnectClears ==
  /\ [][ lastSock'.op = "disconnect" =>
           /\ socket' = Null
           /\ listeners' = listeners
           /\ socket = Null => conns' = conns
           /\ socket # Null =>
                /\ conns'[socket[1]] = [conns[socket[1]] EXCEPT !.status = "closed"]
                /\ \A j \in SocketIds \ {socket[1]} : conns'[j] = conns[j] ]_vars
  /\ [][ ( lastSock'.op \in {"connect", "subscribe"} /\ socket = Null ) =>
           /\ socket' # Null
           /\ conns[socket'[1]] = NoConn
           /\ conns'[socket'[1]].status = "connecting"
           /\ \A j \in SocketIds \ {socket'[1]} : conns'[j] = conns[j] ]_vars

\* the first connection, established and carrying a handler, was closed by
\* disconnect(); the connect() call that followed opened the second one
DisconnectClearsWitness ==
  \E l \in Listeners :
    /\ lastSock.op = "connect"
    /\ lastSock.before = Null
    /\ conns[1].status = "closed"
    /\ conns[1].handlers[l] = 1
    /\ listeners[l].st = "active"
    /\ socket = Some(2)
    /\ conns[2] = NewConn

\* C22 (connection failures do not reach the streams): a 'connect',
\* 'connect_error' or 'disconnect' event of a connection changes no listener
\* (none is completed or failed), no registered handler and not the stored
\* socket, and hands nothing to anybody; a listener whose connection is not
\* up receives nothing; and an event arriving on a connection, also one
\* that came up again after a failure, reaches every listener of its name
\* that is subscribed on it.
FailuresTransparent ==
  /\ [][ lastSock'.op \in {"onConnect", "onConnectError", "onDisconnect"} =>
           /\ listeners' = listeners
           /\ socket' = socket
           /\ received' = NothingReceived
           /\ \A k \in SocketIds :
                /\ conns'[k].handlers = conns[k].handlers
                /\ conns'[k].lifecycle = conns[k].lifecycle ]_vars
  /\ [] ( \A l \in Listeners :
            ( listeners[l].st = "active"
              /\ conns[listeners[l].sock].status # "connected" )
            => received[l] = << >> )
  /\ [] ( lastSock.op = "onEvent" =>
            \A l \in Listeners :
              ( ActiveOn(l, lastSock.who) /\ listeners[l].event = lastSock.event )
                => received[l] = << lastSock.data >> )

\* the connection in use had failed or gone down, is up again, and an event
\* arriving on it reached a listener that was subscribed all along on the
\* handler it had registered
FailuresTransparentWitness ==
  \E k \in SocketIds, l \in Listeners :
    /\ lastSock.op = "onEvent" /\ lastSock.who = k
    /\ socket = Some(k)
    /\ conns[k].lost
    /\ conns[k].status = "connected"
    /\ ActiveOn(l, k) /\ listeners[l].event = lastSock.event
    /\ conns[k].handlers[l] = 1
    /\ received[l] = << lastSock.data >>

\* C23 (bounded reconnection): no more than reconnectionAttempts
\* reconnection attempts are made in a row; a connection that was given up
\* stays down (nothing is attempted) whatever happens short of a connect()
\* call; and a connect() call made when the connection was given up leaves a
\* connection that is connecting.
ReconnectionBounded ==
  /\ [] ( \A k \in SocketIds : conns[k].attempts <= reconnectionAttempts )
  /\ [][ \A k \in SocketIds :
           ( conns[k].status = "failed" /\ lastSock'.op # "connect" )
             => conns'[k].status \in {"failed", "closed"} ]_vars
  /\ [] ( ( lastSock.op = "connect" /\ \E k \in SocketIds : conns[k].status = "failed" )
            => OpenConns # {} )

(***************************************************************************)
(* The operations that call menuDataSubject.next().                        *)
(***************************************************************************)
Loads == {"httpResponse", "menu_reset"}

Writers == Loads \cup {"menu_item_updated", "menu_item_sold_out"}

(***************************************************************************)
(* C24: the slot goes from absent to present only in a step that is a      *)
(* successful response to getMenuData()/reloadMenu() or a menu_reset, and  *)
(* every such step leaves it present, holding the catalog that arrived;    *)
(* the content of the slot changes only in a step that is an item update,  *)
(* a sold-out, a reset or a successful response.                           *)
(***************************************************************************)
CatalogPresence ==
  /\ ( prevMenu = Null /\ menuDataSubject # Null ) => lastOp.op \in Loads
  /\ lastOp.op \in Loads =>
       /\ menuDataSubject # Null
       /\ Content(menuDataSubject) = lastOp.data
  /\ lastOp.op = "httpResponse" => lastWriter.op \in {"getMenuData", "reloadMenu"}
  /\ lastOp.op \notin Writers => Content(menuDataSubject) = prevMenu

\* a first catalog has just arrived on a reloadMenu() stream, after a failed
\* request had left the slot empty
CatalogPresenceWitness ==
  /\ lastOp.op = "httpResponse"
  /\ lastWriter.op = "reloadMenu"
  /\ prevMenu = Null
  /\ menuDataSubject # Null
  /\ \E c \in Callers : streams[c].st = "error"

(***************************************************************************)
(* A value of type PublicMenuData: categories, each with its items, and    *)
(* the allergens; every item has its five fields.                          *)
(***************************************************************************)
IsMenuItem(item) ==
  /\ DOMAIN item = {"_id", "name", "price", "quantitaDisponibile", "disponibile"}
  /\ item._id \in ItemIds
  /\ item.price \in Prices
  /\ item.quantitaDisponibile \in Int
  /\ item.disponibile \in BOOLEAN

IsPublicMenuData(C) ==
  /\ DOMAIN C = {"categories", "allergens"}
  /\ DOMAIN C.categories = 1..Len(C.categories)
  /\ \A c \in DOMAIN C.categories :
       /\ DOMAIN C.categories[c] = {"_id", "name", "items"}
       /\ DOMAIN C.categories[c].items = 1..Len(C.categories[c].items)
       /\ \A j \in DOMAIN C.categories[c].items : IsMenuItem(C.categories[c].items[j])

\* menuDataSubject.next() has been called at least once
EverLoaded == lastWriter # NoWriter

(***************************************************************************)
(* C25: from the first successful response or reset on, the slot is never  *)
(* absent again: it holds a well-formed PublicMenuData in every later      *)
(* state, a slot that held a catalog before a step holds one after it, and *)
(* getCurrentMenuData() then returns that catalog.                         *)
(***************************************************************************)
NeverAbsentAgain ==
  /\ EverLoaded => ( menuDataSubject # Null /\ IsPublicMenuData(menuDataSubject[1].data) )
  /\ prevMenu # Null => menuDataSubject # Null
  /\ ( lastOp.op = "getCurrentMenuData" /\ EverLoaded ) =>
       ( lastOp.data # Null /\ IsPublicMenuData(lastOp.data[1].data) )

\* a snapshot read returns the catalog after a sold-out was applied to it
\* and a later request has failed
NeverAbsentAgainWitness ==
  /\ lastOp.op = "getCurrentMenuData"
  /\ lastOp.data # Null
  /\ lastWriter.op = "menu_item_sold_out"
  /\ \E c \in Callers : streams[c].st = "error"

\* the catalog objects that are published: the one the slot holds (what
\* getCurrentMenuData() returns) and the ones the subscribers of menuData$
\* were last handed
Published ==
  { v[1] : v \in { w \in {menuDataSubject} \cup Range(pipeMemory) : w # Null } }

(***************************************************************************)
(* C26: no step changes the content of a published catalog object: an      *)
(* object that is published before a step and still published after it has *)
(* the content it had; and whenever the slot is written, the object stored *)
(* is a new one, different from every object published before the step.    *)
(***************************************************************************)
PublishedImmutable ==
  [][ /\ \A o \in Published : \A n \in Published' : n.ref = o.ref => n.data = o.data
      /\ menuDataSubject' # menuDataSubject =>
           menuDataSubject'[1].ref \notin { o.ref : o \in Published } ]_vars

\* an item update has changed the held content while a subscriber of
\* menuData$ had been handed the catalog held before
PublishedImmutableWitness ==
  /\ lastOp.op = "menu_item_updated"
  /\ prevMenu # Null
  /\ Content(menuDataSubject) # prevMenu
  /\ \E c \in Callers : IsSubscribed(c) /\ pipeMemory[c] = menuDataSubject

(***************************************************************************)
(* C27: a step that is getCurrentMenuData() returns exactly what the slot  *)
(* holds (the held catalog object, or null), starts no request, delivers   *)
(* nothing, and leaves the slot, every consumer's stream and subscription  *)
(* and the socket connection as they were.                                 *)
(***************************************************************************)
SnapshotReadOnly ==
  [][ lastOp'.op = "getCurrentMenuData" =>
        /\ lastOp'.data = menuDataSubject
        /\ menuDataSubject' = menuDataSubject
        /\ nFetch' = nFetch
        /\ streams' = streams
        /\ pipeMemory' = pipeMemory
        /\ delivered' = [c \in Callers |-> Null]
        /\ << socket, conns, listeners >>' = << socket, conns, listeners >> ]_vars

\* a snapshot read returns null while a first request is still unanswered
\* and a second consumer is subscribed to menuData$
SnapshotReadOnlyWitness ==
  /\ lastOp.op = "getCurrentMenuData"
  /\ lastOp.data = Null
  /\ \E c \in Callers : streams[c].st = "pending"
  /\ \E c \in Callers : IsSubscribed(c)

\* b holds the elements of a, each as often as a does
IsPermutation(a, b) ==
  /\ Len(a) = Len(b)
  /\ \E f \in [DOMAIN a -> DOMAIN b] :
       /\ \A i, j \in DOMAIN a : i # j => f[i] # f[j]
       /\ \A i \in DOMAIN a : a[i] = b[f[i]]

NonDecreasingPrice(items) ==
  \A i, j \in DOMAIN items : i < j => items[i].price <= items[j].price

(***************************************************************************)
(* C28: whenever the menu component's map has run on a delivered catalog,  *)
(* the catalog it emits is a PublicMenuData with the same allergens and    *)
(* the same categories (_id, name) in the same order, and the items of     *)
(* each category are a permutation of that category's delivered items, in  *)
(* non-decreasing order of price.                                          *)
(***************************************************************************)
SortedByPrice ==
  menuView # Null =>
    LET C == delivered["menu"][1]
        R == menuView[1].publicData
    IN  /\ IsPublicMenuData(R)
        /\ R.allergens = C.allergens
        /\ Len(R.categories) = Len(C.categories)
        /\ \A c \in DOMAIN C.categories :
             /\ R.categories[c]._id = C.categories[c]._id
             /\ R.categories[c].name = C.categories[c].name
             /\ IsPermutation(C.categories[c].items, R.categories[c].items)
             /\ NonDecreasingPrice(R.categories[c].items)

\* the view has reordered a category that arrived with the dearer item
\* first, beside a category with fewer than two items
SortedByPriceWitness ==
  /\ menuView # Null
  /\ LET C == delivered["menu"][1]
         R == menuView[1].publicData
     IN  /\ \E c \in DOMAIN C.categories :
              /\ Len(C.categories[c].items) = 2
              /\ C.categories[c].items[1].price > C.categories[c].items[2].price
              /\ R.categories[c].items[1] = C.categories[c].items[2]
         /\ \E c \in DOMAIN C.categories : Len(C.categories[c].items) < 2

\* which item sits where: the identifiers of a catalog, place by place
ItemOrder(C) ==
  [c \in DOMAIN C.categories |->
     [j \in DOMAIN C.categories[c].items |-> C.categories[c].items[j]._id]]

(***************************************************************************)
(* C29: whenever the menu component's map has run on a catalog the store   *)
(* delivered, the delivered catalog is as it was before the call, and the  *)
(* slot holds that catalog: the one the server sent if the step was a      *)
(* response or a reset, otherwise one with every item at the place it had  *)
(* in the slot before the step.                                            *)
(***************************************************************************)
SortLeavesStore ==
  menuView # Null =>
    /\ menuView[1].menuData = delivered["menu"][1]
    /\ Content(menuDataSubject) = Some(menuView[1].menuData)
    /\ lastOp.op \in Loads => menuDataSubject[1].data = lastOp.data[1]
    /\ lastOp.op \notin Loads =>
         ItemOrder(menuDataSubject[1].data) = ItemOrder(prevMenu[1])

\* an item update reaches the menu page, whose view shows the items in an
\* order other than the one the slot holds
SortLeavesStoreWitness ==
  /\ lastOp.op = "menu_item_updated"
  /\ menuView # Null
  /\ ItemOrder(menuView[1].publicData) # ItemOrder(menuDataSubject[1].data)

(***************************************************************************)
(* C30: whatever a step hands to a consumer of menuData$ is a              *)
(* PublicMenuData, never null: the initial null of the subject and a slot  *)
(* that is still empty produce no emission.                                *)
(***************************************************************************)
NoNullEmission ==
  \A c \in Callers :
    ( streams[c].kind = "menuData$" /\ delivered[c] # Null ) =>
      /\ delivered[c][1] # NullValue
      /\ IsPublicMenuData(delivered[c][1])

\* a consumer that subscribed to menuData$ while the slot was empty is
\* handed the first catalog when another consumer's request is answered
NoNullEmissionWitness ==
  /\ lastOp.op = "httpResponse"
  /\ prevMenu = Null
  /\ \E c \in Callers :
       /\ c # lastOp.who
       /\ IsSubscribed(c)
       /\ delivered[c] = Content(menuDataSubject)
       /\ delivered[c] # Null

\* every subscription the store made in its constructor is cancelled
StoreDestroyed == \A l \in StoreListenerIds : listeners[l].st = "cancelled"

(***************************************************************************)
(* C31: ngOnDestroy() leaves the three subscriptions of the store          *)
(* cancelled, with no handler of theirs registered on a connection that is *)
(* open; and once they are cancelled, a push event delivered on any        *)
(* connection runs no callback of the store and leaves the slot as it was. *)
(***************************************************************************)
DestroyStopsPushes ==
  /\ lastSock.op = "ngOnDestroy" =>
       /\ StoreDestroyed
       /\ \A k \in OpenConns, l \in StoreListenerIds : conns[k].handlers[l] = 0
  /\ ( StoreDestroyed /\ lastSock.op = "onEvent" ) =>
       /\ lastOp.op = "unheard"
       /\ Content(menuDataSubject) = prevMenu
       /\ delivered = [c \in Callers |-> Null]

\* after ngOnDestroy() a menu_reset with another catalog arrives on the
\* connection: the listener of another component receives it, the slot
\* keeps the catalog it held
DestroyStopsPushesWitness ==
  /\ StoreDestroyed
  /\ lastSock.op = "onEvent"
  /\ lastSock.event = "menu_reset"
  /\ received["l4"] # << >>
  /\ menuDataSubject # Null
  /\ lastSock.data # menuDataSubject[1].data

(***************************************************************************)
(* C32: whenever a catalog is held, the quantity of every item in it is a  *)
(* non-negative integer.                                                   *)
(***************************************************************************)
QuantityNonNegative ==
  menuDataSubject # Null =>
    \A pos \in Positions(menuDataSubject[1].data) :
      ItemAt(menuDataSubject[1].data, pos).quantitaDisponibile \in Nat

\* catalog C with quantity q and availability d written into every item
\* whose identifier is id
Rewritten(C, id, q, d) ==
  [categories |->
     [c \in DOMAIN C.categories |->
        [_id |-> C.categories[c]._id,
         name |-> C.categories[c].name,
         items |-> [j \in DOMAIN C.categories[c].items |->
                      LET item == C.categories[c].items[j]
                      IN  IF item._id = id
                            THEN [item EXCEPT !.quantitaDisponibile = q, !.disponibile = d]
                            ELSE item]]],
   allergens |-> C.allergens]

\* one step of the fold: the slot content that event e makes of content C
FoldStep(C, e) ==
  IF e.op \in Loads THEN e.data
  ELSE IF C = Null THEN Null
  ELSE IF e.op = "menu_item_updated"
    THEN Some(Rewritten(C[1], e.patch._id, e.patch.quantitaDisponibile, e.patch.disponibile))
  ELSE IF e.op = "menu_item_sold_out"
    THEN Some(Rewritten(C[1], e.patch._id, 0, FALSE))
  ELSE C

(***************************************************************************)
(* C33: the slot is the fold of the events applied so far over the absent  *)
(* state.  The fold is the iteration of FoldStep from absent, so this is:  *)
(* the slot starts absent, and after every step it holds what FoldStep     *)
(* makes of the content before the step and the event of the step (a       *)
(* response or reset sets it, an item event on a held catalog rewrites the *)
(* matching item, everything else keeps it).                               *)
(***************************************************************************)
SlotIsFold ==
  /\ lastOp.op = "init" => menuDataSubject = Null
  /\ lastOp.op # "init" => Content(menuDataSubject) = FoldStep(prevMenu, lastOp)

\* a sold-out rewrites an item of a catalog that a reloadMenu() response
\* had set, after an earlier request had failed
SlotIsFoldWitness ==
  /\ lastOp.op = "menu_item_sold_out"
  /\ prevMenu # Null
  /\ Content(menuDataSubject) # prevMenu
  /\ lastWriter.op = "menu_item_sold_out"
  /\ \E c \in Callers : streams[c].st = "error"
  /\ \E c \in Callers : streams[c].st = "complete" /\ streams[c].op = "reloadMenu"

(***************************************************************************)
(* C34: in every state in which a catalog is held, each consumer with an   *)
(* active subscription to menuData$ has, as the last value it was handed,  *)
(* the very catalog the slot holds, which is what getCurrentMenuData()     *)
(* returns.                                                                *)
(***************************************************************************)
StreamAgreesWithSnapshot ==
  \A c \in Callers :
    ( menuDataSubject # Null /\ IsSubscribed(c) ) =>
      /\ pipeMemory[c] = menuDataSubject
      /\ lastSeen[c] = Content(menuDataSubject)
      /\ lastOp.op = "getCurrentMenuData" => lastOp.data = pipeMemory[c]

\* both consumers are subscribed to menuData$ when an item update changes
\* the held catalog
StreamAgreesWithSnapshotWitness ==
  /\ lastOp.op = "menu_item_updated"
  /\ prevMenu # Null
  /\ Content(menuDataSubject) # prevMenu
  /\ \A c \in Callers : IsSubscribed(c)

\* no identifier occurs at two places of catalog C
UniqueIds(C) ==
  \A p, q \in Positions(C) : ItemAt(C, p)._id = ItemAt(C, q)._id => p = q

\* the update the handler of the last item event passed to
\* updateMenuItemLocally
AppliedPatch ==
  IF lastOp.op = "menu_item_sold_out" THEN SoldOutPatch(lastOp.patch._id) ELSE lastOp.patch

(***************************************************************************)
(* C35: for every catalog with unique item identifiers and every item      *)
(* update or sold-out, the update of menu-data.ts (map over every item)    *)
(* and the update of part_000 (first category with a match, one index)     *)
(* build equal catalogs, and that catalog is the one the running build     *)
(* stores.                                                                 *)
(***************************************************************************)
ImplementationsAgree ==
  ( lastOp.op \in ItemEvents /\ prevMenu # Null /\ UniqueIds(prevMenu[1]) ) =>
    /\ UpdatedMenuMapAll(prevMenu[1], AppliedPatch)
         = UpdatedMenuFirstMatch(prevMenu[1], AppliedPatch)
    /\ menuDataSubject[1].data = UpdatedMenuMapAll(prevMenu[1], AppliedPatch)

\* part_000 has applied an update to an item of the second category, behind
\* a first category that holds another item
ImplementationsAgreeWitness ==
  /\ build = "part_000"
  /\ lastOp.op = "menu_item_updated"
  /\ Content(menuDataSubject) # prevMenu
  /\ Len(prevMenu[1].categories) = 2
  /\ Len(prevMenu[1].categories[1].items) = 1
  /\ \E j \in DOMAIN prevMenu[1].categories[2].items :
        prevMenu[1].categories[2].items[j]._id = lastOp.patch._id

(***************************************************************************)
(* C36: for every catalog C and every item update or sold-out P, applying  *)
(* P to the catalog that P made of C gives that same catalog again; the    *)
(* catalog P made of C is the one the store holds after the event.         *)
(***************************************************************************)
PatchIdempotent ==
  ( lastOp.op \in ItemEvents /\ prevMenu # Null ) =>
    LET once == UpdatedMenu(prevMenu[1], AppliedPatch)
    IN  /\ menuDataSubject[1].data = once
        /\ UpdatedMenu(once, AppliedPatch) = once

\* a sold-out has changed an item that was available, so the sold-out
\* applied twice gives a catalog other than the one it started from
PatchIdempotentWitness ==
  /\ lastOp.op = "menu_item_sold_out"
  /\ prevMenu # Null
  /\ Content(menuDataSubject) # prevMenu
  /\ UpdatedMenu(menuDataSubject[1].data, AppliedPatch) # prevMenu[1]

(***************************************************************************)
(* C37: for every catalog C, every item update or sold-out P and every     *)
(* item update Q that names another identifier, applying Q to the catalog  *)
(* the store holds after P gives the catalog that applying Q first and P   *)
(* second gives.                                                           *)
(***************************************************************************)
PatchesCommute ==
  ( lastOp.op \in ItemEvents /\ prevMenu # Null ) =>
    \A Q \in Patches \cup { SoldOutPatch(id) : id \in PatchIds } :
      Q._id # AppliedPatch._id =>
        UpdatedMenu(menuDataSubject[1].data, Q)
          = UpdatedMenu(UpdatedMenu(prevMenu[1], Q), AppliedPatch)

\* an update has changed one of two items of a category, and an update of
\* the other item would change the catalog as well
PatchesCommuteWitness ==
  /\ lastOp.op = "menu_item_updated"
  /\ prevMenu # Null
  /\ Content(menuDataSubject) # prevMenu
  /\ \E c \in DOMAIN prevMenu[1].categories :
       /\ Len(prevMenu[1].categories[c].items) = 2
       /\ \E j \in 1..2 : prevMenu[1].categories[c].items[j]._id = lastOp.patch._id
  /\ \E Q \in Patches :
       /\ Q._id # lastOp.patch._id
       /\ UpdatedMenu(menuDataSubject[1].data, Q) # menuDataSubject[1].data

\* the subscriptions a step cancels
Cancelled ==
  { l \in Listeners : listeners[l].st = "active" /\ listeners'[l].st = "cancelled" }

(***************************************************************************)
(* C38: a handler is registered only on the connection that was in use     *)
(* when its subscription started, so a connection opened after a           *)
(* disconnect() carries no handler of an earlier subscription; a payload   *)
(* delivered on a connection reaches no subscription started on another    *)
(* one, and when the three subscriptions of the store are among those, no  *)
(* callback of the store runs and the slot stays as it was; and a step     *)
(* that cancels subscriptions leaves the handlers of every other           *)
(* subscription registered where they were.                                *)
(***************************************************************************)
StaleAfterReconnect ==
  /\ [] ( \A k \in SocketIds, l \in Listeners :
             conns[k].handlers[l] > 0 => listeners[l].sock = k )
  /\ [] ( lastSock.op = "onEvent" =>
             /\ \A l \in Listeners :
                  listeners[l].sock # lastSock.who => received[l] = << >>
             /\ ( \A l \in StoreListenerIds : listeners[l].sock # lastSock.who ) =>
                  /\ lastOp.op = "unheard"
                  /\ Content(menuDataSubject) = prevMenu )
  /\ [][ \A k \in SocketIds, m \in Listeners \ Cancelled :
            conns'[k].handlers[m] >= conns[k].handlers[m] ]_vars

\* after disconnect() and connect() a menu_reset arrives on the second
\* connection: the subscription another component made on it receives the
\* payload, the still active subscriptions of the store do not
StaleAfterReconnectWitness ==
  /\ lastSock.op = "onEvent"
  /\ lastSock.event = "menu_reset"
  /\ lastSock.who = 2
  /\ conns[1].status = "closed"
  /\ received["l4"] # << >>
  /\ lastOp.op = "unheard"
  /\ \A l \in StoreListenerIds : listeners[l].st = "active"
====
